---- MODULE Spec2Model ----
(***************************************************************************)
(* Verification model of anweb: the per-session write path and the worker  *)
(* (tcp_session.rs, worker.rs, response.rs), the concurrent send path, and *)
(* the HTTP protocol machine (request_parser.rs, web_session.rs,           *)
(* request.rs).                                                            *)
(***************************************************************************)
EXTENDS Integers, Sequences, FiniteSets, TLC

(***************************************************************************)
(* Bounds of the model.                                                    *)
(***************************************************************************)
\* longest block one send call submits
MaxBlock == 2
\* total number of bytes submitted to one session
MaxBytes == 4

(***************************************************************************)
(* Part 1.  One session's write path, driven by one submitting thread and  *)
(* the worker.                                                             *)
(***************************************************************************)
VARIABLES
    surpluses_to_write,        \* InnerTcpSession.surpluses_to_write: the write queue
    need_close,                \* InnerTcpSession.need_close (close-requested)
    need_close_after_sending,  \* InnerTcpSession.need_close_after_sending
    is_http_mode,              \* InnerTcpSession.is_http_mode
    interest,                  \* readiness the stream is registered for in mio_poll
    tcp_clients,               \* TRUE while the session is in the worker's slab
    wire,                      \* bytes the socket has accepted, in order
    submitted,                 \* bytes handed to send/send_arc, in call order
    close_by,                  \* the call site of close() that set need_close first
    write_failed,              \* a socket write returned an error other than WouldBlock
    stream_errors,             \* callbacks that received Err(StreamError), in order
    disconnected,              \* number of Event::Disconnected emitted for the session
    last_op,                   \* the operation that ran last
    last_response,             \* inputs and decision of the last Response::try_send
    threads,                   \* Part 2: the position of each thread inside send
    inbound,                   \* Part 4: the requests the peer sends and what the handler does
    pos,                       \* Part 4: bytes of the inbound stream read so far
    web,                       \* Part 4: WebSession.state, the HttpState
    content_callback,          \* Part 4: InnerTcpSession.content_callback
    http_events,               \* Part 4: the callback invocations, in order
    worker                     \* Part 5: the worker: its accept position, the events
                               \* it emitted for the session, and whether it still runs

vars == <<surpluses_to_write, need_close, need_close_after_sending, is_http_mode,
          interest, tcp_clients, wire, submitted, close_by, write_failed,
          stream_errors, disconnected, last_op, last_response, threads,
          inbound, pos, web, content_callback, http_events, worker>>

\* the variables that Part 1 leaves alone
others == <<threads, inbound, pos, web, content_callback, http_events>>

\* the variables of Part 4
web_vars == <<inbound, pos, web, content_callback, http_events>>

\* the application threads of Part 2
Threads == {1, 2}

\* a thread that is not inside send
IdleThread == [pc |-> "idle", data |-> <<>>, cnt |-> 0]

\* The session as one record, so that the methods below are record transformers.
\* handler is what the application's callback does when it is called, and
\* unwound is set when a callback has panicked: the method that called it has
\* been left and none of its later statements runs.
Session ==
    [surpluses_to_write |-> surpluses_to_write, need_close |-> need_close,
     need_close_after_sending |-> need_close_after_sending,
     is_http_mode |-> is_http_mode, interest |-> interest, wire |-> wire,
     submitted |-> submitted, close_by |-> close_by, write_failed |-> write_failed,
     stream_errors |-> stream_errors, handler |-> inbound.handler,
     unwound |-> FALSE]

Commit(r) ==
    /\ surpluses_to_write' = r.surpluses_to_write
    /\ need_close' = r.need_close
    /\ need_close_after_sending' = r.need_close_after_sending
    /\ is_http_mode' = r.is_http_mode
    /\ interest' = r.interest
    /\ wire' = r.wire
    /\ submitted' = r.submitted
    /\ close_by' = r.close_by
    /\ write_failed' = r.write_failed
    /\ stream_errors' = r.stream_errors

\* SurplusForWrite { data, write_yet_cnt }
SurplusForWrite(data, cnt) == [data |-> data, write_yet_cnt |-> cnt]

\* data[from..] of a Rust slice (from is 0-based)
SliceFrom(data, from) == SubSeq(data, from + 1, Len(data))

\* TcpSession::new
NewSession ==
    [surpluses_to_write |-> <<>>, need_close |-> FALSE,
     need_close_after_sending |-> FALSE, is_http_mode |-> FALSE,
     interest |-> "readable", wire |-> <<>>, submitted |-> <<>>,
     close_by |-> "none", write_failed |-> FALSE, stream_errors |-> <<>>,
     unwound |-> FALSE]

\* InnerTcpSession::close, called from the place `site`
close(r, site) ==
    IF r.unwound THEN r
    ELSE [r EXCEPT !.need_close = TRUE,
                   !.close_by = IF r.need_close THEN @ ELSE site]

\* The results a non-blocking stream.write(buf) can have for Len(buf) = n > 0.
WriteOutcomes(n) ==
    {[kind |-> "ok", cnt |-> c] : c \in 1..n}
        \cup {[kind |-> k, cnt |-> 0] : k \in {"wouldblock", "reset", "other"}}

\* InnerTcpSession::write on a plain stream, with the outcome o
write(r, buf, o) ==
    IF o.kind = "ok"
    THEN [r EXCEPT !.wire = @ \o SubSeq(buf, 1, o.cnt)]
    ELSE IF o.kind = "wouldblock" THEN r
    ELSE [r EXCEPT !.write_failed = TRUE]

\* call_http_callback / call_websocket_callback with Err(StreamError)
call_error_callback(r) ==
    [r EXCEPT !.stream_errors =
                  Append(@, IF r.is_http_mode THEN "http" ELSE "websocket"),
              !.unwound = (r.handler = "panic")]

\* send_later, were it to queue the rest without registering for writing
send_later_unarmed(r, surplus) ==
    {[r EXCEPT !.surpluses_to_write = Append(@, surplus)]}

\* InnerTcpSession::send_later: the possible results (reregister may fail)
send_later(r, surplus) ==
    LET pushed == [r EXCEPT !.surpluses_to_write = Append(@, surplus)] IN
    {[pushed EXCEPT !.interest = "writable"], close(pushed, "send_later")}

\* send, were it to queue the whole block after a partial write
send_rest_whole(data, cnt) == SurplusForWrite(data, 0)

\* What send queues after a write of cnt bytes of data: the unwritten rest.
send_rest(data, cnt) == SurplusForWrite(SliceFrom(data, cnt), 0)

\* What send_arc queues after a write of cnt bytes: the shared block and a cursor.
send_arc_rest(data, cnt) == SurplusForWrite(data, cnt)

\* The test after a complete direct write in send.
send_close_check(r) == r.need_close_after_sending

\* The test after a complete direct write in send_arc.
send_arc_close_check(r) == r.is_http_mode /\ r.need_close_after_sending

\* The body of send and send_arc after the queue was found empty.
send_direct(r, data, rest(_, _), close_check(_)) ==
    UNION {
        LET w == write(r, data, o) IN
        IF o.kind = "ok"
        THEN IF o.cnt < Len(data)
             THEN send_later(w, rest(data, o.cnt))
             ELSE {IF close_check(w) THEN close(w, "after_sending") ELSE w}
        ELSE IF o.kind = "wouldblock"
        THEN send_later(w, rest(data, 0))
        ELSE {close(w, "send_error")}
        : o \in WriteOutcomes(Len(data)) }

\* InnerTcpSession::send: the set of possible results
send(r0, data) ==
    LET r == [r0 EXCEPT !.submitted = @ \o data] IN
    IF r.surpluses_to_write # <<>>
    THEN {[r EXCEPT !.surpluses_to_write = Append(@, SurplusForWrite(data, 0))]}
    ELSE send_direct(r, data, send_rest, send_close_check)

\* InnerTcpSession::send_arc: the set of possible results
send_arc(r0, data) ==
    LET r == [r0 EXCEPT !.submitted = @ \o data] IN
    IF r.surpluses_to_write # <<>>
    THEN {[r EXCEPT !.surpluses_to_write = Append(@, SurplusForWrite(data, 0))]}
    ELSE send_direct(r, data, send_arc_rest, send_arc_close_check)

\* One iteration of the loop of send_yet over entry i, and the iterations after it:
\* the set of possible sessions when the loop is left.
\* w is the session after the write and w1 after the cursor has moved; each
\* is bound as the element of a one-element set.
RECURSIVE send_yet_loop(_, _)
send_yet_loop(r, i) ==
    IF i > Len(r.surpluses_to_write) \/ r.unwound THEN {r}
    ELSE LET surplus == r.surpluses_to_write[i] IN
         IF surplus.write_yet_cnt >= Len(surplus.data)
         THEN send_yet_loop(r, i + 1)
         ELSE UNION { UNION {
                  IF o.kind = "ok"
                  THEN UNION {
                           IF w1.surpluses_to_write[i].write_yet_cnt < Len(surplus.data)
                           THEN {w1}
                           ELSE send_yet_loop(w1, i + 1)
                           : w1 \in {[w EXCEPT !.surpluses_to_write[i].write_yet_cnt = @ + o.cnt]} }
                  ELSE IF o.kind = "wouldblock"
                  THEN {w}
                  ELSE IF o.kind = "reset"
                  THEN UNION {send_yet_loop(c, i + 1) : c \in {close(w, "send_yet_error")}}
                  ELSE UNION {send_yet_loop(c, i + 1) :
                                 c \in {close(call_error_callback(w), "send_yet_error")}}
                  : w \in {write(r, SliceFrom(surplus.data, surplus.write_yet_cnt), o)} }
                  : o \in WriteOutcomes(Len(surplus.data) - surplus.write_yet_cnt) }

\* surpluses_for_write.retain(|surplus| surplus.write_yet_cnt < surplus.data.len())
retain(q) == SelectSeq(q, LAMBDA surplus : surplus.write_yet_cnt < Len(surplus.data))

\* send_yet, were it to forget close-after-drain
send_yet_never_close(r) == FALSE

\* The test made in send_yet once the queue is empty and the stream is
\* registered for reading again.
send_yet_close_check(r) == r.need_close_after_sending

\* the end of send_yet, were it to leave the registration for writing
send_yet_drained_armed(r) ==
    {IF send_yet_close_check(r) THEN close(r, "after_sending") ELSE r,
     close(call_error_callback(r), "reregister")}

\* The end of send_yet when the queue is empty: reregister for reading, which
\* may fail.
send_yet_drained(r) ==
    {IF send_yet_close_check(r)
        THEN close([r EXCEPT !.interest = "readable"], "after_sending")
        ELSE [r EXCEPT !.interest = "readable"],
     close(call_error_callback(r), "reregister")}

\* TcpSession::send_yet: the set of possible results
send_yet(r) ==
    IF r.surpluses_to_write = <<>>
    THEN {[r EXCEPT !.interest = "readable"],
          close(call_error_callback(r), "reregister")}
    ELSE UNION {
        LET kept == [l EXCEPT !.surpluses_to_write = retain(@)] IN
        IF l.unwound THEN {l}
        ELSE IF kept.surpluses_to_write = <<>> THEN send_yet_drained(kept) ELSE {kept}
        : l \in send_yet_loop(r, 1) }

(***************************************************************************)
(* Responses and the keep-alive policy (response.rs).                      *)
(***************************************************************************)
HttpVersions == {"Http1_0", "Http1_1"}
\* Option<ConnectionType>
ConnectionTypes == {"None", "KeepAlive", "Close"}
\* Response.keep_alive_connection: Option<bool>
KeepAliveOptions == {"None", "SomeTrue", "SomeFalse"}

\* need_close_by_request, were the HTTP/1.0 default applied before the header
need_close_by_request_version_first(request) ==
    request.version = "Http1_0" \/ request.connection_type = "Close"

\* need_close_by_request(request)
need_close_by_request(request) ==
    IF request.connection_type # "None"
    THEN request.connection_type = "Close"
    ELSE request.version = "Http1_0"

\* need_close_after_response of Response::try_send
need_close_after_response(keep_alive_connection, request) ==
    IF keep_alive_connection # "None"
    THEN keep_alive_connection = "SomeFalse"
    ELSE need_close_by_request(request)

\* TcpSession::close_after_send
close_after_send(r) == [r EXCEPT !.need_close_after_sending = TRUE]

\* Response::try_send: the flag first, then the bytes of the response
try_send(r, keep_alive_connection, request, response) ==
    send(IF need_close_after_response(keep_alive_connection, request)
            THEN close_after_send(r) ELSE r,
         response)

(***************************************************************************)
(* Actions of the write path.                                              *)
(***************************************************************************)
\* the next n bytes to submit: bytes are numbered in submission order
NewBlock(n) == [i \in 1..n |-> Len(submitted) + i]

BlockLens == {n \in 1..MaxBlock : Len(submitted) + n <= MaxBytes}

NoResponse ==
    [sent |-> FALSE, version |-> "Http1_0", connection_type |-> "None",
     keep_alive_connection |-> "None", need_close_after_response |-> FALSE]

\* the session is r and nothing has happened to it
SessionIs(r) ==
    /\ surpluses_to_write = r.surpluses_to_write
    /\ need_close = r.need_close
    /\ need_close_after_sending = r.need_close_after_sending
    /\ is_http_mode = r.is_http_mode
    /\ interest = r.interest
    /\ wire = r.wire
    /\ submitted = r.submitted
    /\ close_by = r.close_by
    /\ write_failed = r.write_failed
    /\ stream_errors = r.stream_errors
    /\ disconnected = 0
    /\ last_op = "new"
    /\ last_response = NoResponse
    /\ threads = [t \in Threads |-> IdleThread]

\* a session r that process_mio_events has just accepted and registered
\* The worker thread: where it is in the accept branch, the events it has
\* emitted, whether it still runs, the session mutexes it holds while it is
\* inside a callback, the call site of that callback, the call on which the
\* callback is stuck, and whether the sessions have a TLS engine.
WorkerThread(accept_pc, events, tls) ==
    [accept_pc |-> accept_pc, events |-> events, alive |-> TRUE,
     held |-> {}, calling |-> "none", blocked |-> "none", tls |-> tls]

Accepted(r) ==
    /\ SessionIs(r)
    /\ tcp_clients = TRUE
    /\ worker = WorkerThread("done", <<"Connected">>, FALSE)

\* Request::new / RequestData::new; content_len -1 is None
NewRequest ==
    [raw |-> <<>>, method_end_index |-> 0, path_indices |-> <<0, 0>>,
     raw_query_indices |-> <<0, 0>>, version |-> "Http1_0", headers |-> <<>>,
     connection_type |-> "None", content_len |-> -1]

\* ParseState
ParseState(phase, a, b) == [phase |-> phase, a |-> a, b |-> b]

\* Parser::new
NewParser == [request |-> NewRequest, parse_state |-> ParseState("Method", 0, 0)]

\* no inbound data: Parts 1 and 2 look at the write path only
\* tail: bytes the peer sends after its requests; limit: the
\* pipelining_requests_limit of the worker's settings
\* payload_limit: the websocket_payload_limit of the worker's settings
WEBSOCKET_PAYLOAD_LIMIT == 16000000

NoInbound ==
    [descs |-> <<>>, handler |-> "ok", body_result |-> "ok", tail |-> <<>>,
     limit |-> 64, payload_limit |-> WEBSOCKET_PAYLOAD_LIMIT]

\* content_callback: None
NoContentCallback == [installed |-> FALSE, request |-> 0]

\* HttpState of WebSession::new, and whether read_stream unwound with a panic
\* state and websocket_parser are State::Http / State::Websocket(parser);
\* websocket_callback tells whether the session's frame callback slot is set
NewWebSession ==
    [request_parser |-> NewParser, content_len |-> 0,
     already_read_content_len |-> 0, pipelining_http_requests_count |-> 0,
     panicked |-> FALSE, state |-> "Http",
     websocket_parser |->
         [state |-> "ParseFirstByteWhereFinAndOpcode",
          frame |-> [fin |-> FALSE, opcode |-> 0, first_byte |-> 0, buf |-> <<>>,
                     payload_index |-> 0, payload_len |-> 0,
                     masking_key_index |-> 0]],
     websocket_callback |-> FALSE]

Init ==
    /\ Accepted(NewSession)
    /\ inbound = NoInbound
    /\ pos = 0
    /\ web = NewWebSession
    /\ content_callback = NoContentCallback
    /\ http_events = <<>>

\* TcpSession::send called by the application
Send ==
    \E n \in BlockLens : \E r \in send(Session, NewBlock(n)) :
        /\ Commit(r)
        /\ last_op' = "send"
        /\ UNCHANGED others
        /\ UNCHANGED <<tcp_clients, disconnected, worker, last_response>>

\* TcpSession::send_arc called by the application
SendArc ==
    \E n \in BlockLens : \E r \in send_arc(Session, NewBlock(n)) :
        /\ Commit(r)
        /\ last_op' = "send_arc"
        /\ UNCHANGED others
        /\ UNCHANGED <<tcp_clients, disconnected, worker, last_response>>

\* Response::send for a request received in HTTP mode
ResponseSend ==
    /\ is_http_mode
    /\ \E n \in BlockLens, version \in HttpVersions, connection_type \in ConnectionTypes,
          keep_alive_connection \in KeepAliveOptions :
          LET request == [version |-> version, connection_type |-> connection_type] IN
          \E r \in try_send(Session, keep_alive_connection, request, NewBlock(n)) :
              /\ Commit(r)
              /\ last_response' =
                     [sent |-> TRUE, version |-> version,
                      connection_type |-> connection_type,
                      keep_alive_connection |-> keep_alive_connection,
                      need_close_after_response |->
                          need_close_after_response(keep_alive_connection, request)]
    /\ last_op' = "response"
    /\ UNCHANGED others
    /\ UNCHANGED <<tcp_clients, disconnected, worker>>

\* TcpSession::close called by the application
Close ==
    /\ ~need_close
    /\ Commit(close(Session, "application"))
    /\ last_op' = "close"
    /\ UNCHANGED others
    /\ UNCHANGED <<tcp_clients, disconnected, worker, last_response>>

\* TcpSession::close_after_send called by the application
CloseAfterSend ==
    /\ ~need_close_after_sending
    /\ Commit(close_after_send(Session))
    /\ last_op' = "close_after_send"
    /\ UNCHANGED others
    /\ UNCHANGED <<tcp_clients, disconnected, worker, last_response>>

\* TcpSession::to_http
ToHttp ==
    /\ ~is_http_mode
    /\ Commit([Session EXCEPT !.is_http_mode = TRUE])
    /\ last_op' = "to_http"
    /\ UNCHANGED others
    /\ UNCHANGED <<tcp_clients, disconnected, worker, last_response>>

\* The end of the handling of one event of a session in process_mio_events:
\* a session that needs to disconnect is removed and Disconnected is emitted.
remove_if_need_disconnect(r) ==
    IF r.need_close
    THEN /\ tcp_clients' = FALSE
         /\ disconnected' = disconnected + 1
         /\ worker' = [worker EXCEPT !.events = Append(@, "Disconnected")]
    ELSE UNCHANGED <<tcp_clients, disconnected, worker>>

\* The readable branch of process_mio_events after read_stream: a panic that
\* catch_unwind caught emits Panicked and removes the session.
remove_after_read(r, panicked) ==
    IF panicked
    THEN /\ tcp_clients' = FALSE
         /\ disconnected' = disconnected + 1
         /\ worker' = [worker EXCEPT !.events = @ \o <<"Panicked", "Disconnected">>]
    ELSE remove_if_need_disconnect(r)

\* The writable branch of process_mio_events after send_yet, which is called
\* outside catch_unwind: a panic of a callback leaves Worker::run.
remove_after_write(r) ==
    IF r.unwound
    THEN /\ worker' = [worker EXCEPT !.alive = FALSE]
         /\ UNCHANGED <<tcp_clients, disconnected>>
    ELSE remove_if_need_disconnect(r)

\* Worker::process_mio_events for a writable event of the session
WritableEvent ==
    /\ worker.alive
    /\ tcp_clients
    /\ interest = "writable"
    /\ \E r \in send_yet(Session) :
           /\ Commit(r)
           /\ remove_after_write(r)
    /\ last_op' = "send_yet"
    /\ UNCHANGED others
    /\ UNCHANGED last_response

\* WebSession::read_stream with the result of the socket read.  What the
\* callbacks do with data that was read is Part 4; the calls they make on the
\* session handle are the actions above.
read_stream(r, result) ==
    IF result = "eof" THEN close(r, "read_eof")
    ELSE IF result = "error" THEN close(call_error_callback(r), "read_error")
    ELSE r

\* Worker::process_mio_events for a readable event of the session
ReadableEvent ==
    /\ worker.alive
    /\ tcp_clients
    /\ interest = "readable"
    /\ \E result \in {"data", "eof", "wouldblock", "error"} :
           LET r == read_stream(Session, result) IN
           /\ Commit(r)
           /\ remove_after_read(r, r.unwound)
    /\ last_op' = "read_stream"
    /\ UNCHANGED others
    /\ UNCHANGED last_response

\* remove_disconnected, were it to drop every session
remove_disconnected_all(r) == TRUE

\* The test of Worker::remove_disconnected
remove_disconnected_test(r) == r.need_close

\* Worker::remove_disconnected at the top of Worker::poll
RemoveDisconnected ==
    /\ worker.alive
    /\ tcp_clients
    /\ remove_disconnected_test(Session)
    /\ tcp_clients' = FALSE
    /\ disconnected' = disconnected + 1
    /\ worker' = [worker EXCEPT !.events = Append(@, "Disconnected")]
    /\ last_op' = "remove_disconnected"
    /\ UNCHANGED others
    /\ UNCHANGED <<surpluses_to_write, need_close, need_close_after_sending,
                   is_http_mode, interest, wire, submitted, close_by,
                   write_failed, stream_errors, last_response>>

Next ==
    \/ Send
    \/ SendArc
    \/ ResponseSend
    \/ Close
    \/ CloseAfterSend
    \/ ToHttp
    \/ WritableEvent
    \/ ReadableEvent
    \/ RemoveDisconnected

Spec == Init /\ [][Next]_vars

(***************************************************************************)
(* Properties of the write path.                                           *)
(***************************************************************************)
IsPrefix(s, t) == Len(s) <= Len(t) /\ SubSeq(t, 1, Len(s)) = s

\* C1: with one submitting thread and socket writes that complete fully,
\* partially or with WouldBlock, the bytes on the wire are always a prefix of
\* the submitted bytes in submission order, and together with the unwritten
\* parts of the queue they are exactly the submitted bytes.
RECURSIVE Pending(_)
Pending(q) ==
    IF q = <<>> THEN <<>>
    ELSE SliceFrom(q[1].data, q[1].write_yet_cnt) \o Pending(SubSeq(q, 2, Len(q)))

C1_WireIsPrefixOfSubmitted ==
    ~write_failed =>
        /\ IsPrefix(wire, submitted)
        /\ wire \o Pending(surpluses_to_write) = submitted

\* witness of C1: a block was written in parts by send, another by send_arc,
\* and both have reached the wire through the drain
C1_Witness ==
    /\ ~write_failed
    /\ Len(wire) = MaxBytes
    /\ last_op = "send_yet"
    /\ surpluses_to_write = <<>>

PolicyTable(version, connection_type) ==
    CASE connection_type = "Close" -> TRUE
      [] connection_type = "KeepAlive" -> FALSE
      [] version = "Http1_0" -> TRUE
      [] OTHER -> FALSE

C8_KeepAlivePolicy ==
    [][(last_op' = "response" /\ last_response'.keep_alive_connection = "None") =>
          LET close_it == PolicyTable(last_response'.version,
                                      last_response'.connection_type) IN
          /\ last_response'.need_close_after_response = close_it
          /\ need_close_after_sending' = (need_close_after_sending \/ close_it)]_vars

\* witness of C8: an HTTP/1.0 request with Connection: keep-alive was answered
\* and the connection is kept
C8_Witness ==
    /\ last_response.sent
    /\ last_response.keep_alive_connection = "None"
    /\ last_response.version = "Http1_0"
    /\ last_response.connection_type = "KeepAlive"
    /\ last_op = "response"
    /\ ~need_close_after_sending

ThreadBlock(t, n) == [i \in 1..n |-> 10 * t + i]
BlockOf(byte) == byte \div 10

InitConc ==
    /\ Init

SetThread(t, pc, data, cnt) ==
    threads' = [threads EXCEPT ![t] = [pc |-> pc, data |-> data, cnt |-> cnt]]

FrameConc == UNCHANGED <<tcp_clients, disconnected, worker, last_response, web_vars>>

\* send, lines 359-365: the queue is tested with surpluses_to_write locked, and
\* the lock is released before the write
ConcSendTest(t) ==
    /\ threads[t].pc = "idle"
    /\ \E n \in 1..MaxBlock :
           LET data == ThreadBlock(t, n)
               r == [Session EXCEPT !.submitted = @ \o data] IN
           IF r.surpluses_to_write # <<>>
           THEN /\ Commit([r EXCEPT !.surpluses_to_write =
                                        Append(@, SurplusForWrite(data, 0))])
                /\ SetThread(t, "done", data, 0)
           ELSE /\ Commit(r)
                /\ SetThread(t, "write", data, 0)
    /\ last_op' = "send"
    /\ FrameConc

\* send, lines 367-388: self.write(data) and the match on its result, up to
\* the call of send_later
ConcSendWrite(t) ==
    /\ threads[t].pc = "write"
    /\ LET data == threads[t].data IN
       \E o \in WriteOutcomes(Len(data)) :
           LET w == write(Session, data, o) IN
           IF o.kind = "ok" /\ o.cnt = Len(data)
           THEN /\ Commit(IF send_close_check(w) THEN close(w, "after_sending") ELSE w)
                /\ SetThread(t, "done", data, o.cnt)
           ELSE IF o.kind \in {"ok", "wouldblock"}
           THEN /\ Commit(w)
                /\ SetThread(t, "send_later", data, o.cnt)
           ELSE /\ Commit(close(w, "send_error"))
                /\ SetThread(t, "done", data, 0)
    /\ last_op' = "send"
    /\ FrameConc

\* send_later, lines 426-445, with both locks held
ConcSendLater(t) ==
    /\ threads[t].pc = "send_later"
    /\ \E r \in send_later(Session, send_rest(threads[t].data, threads[t].cnt)) :
           Commit(r)
    /\ SetThread(t, "done", threads[t].data, threads[t].cnt)
    /\ last_op' = "send"
    /\ FrameConc

\* the worker's drain on a writable event
ConcSendYet ==
    /\ worker.alive
    /\ tcp_clients
    /\ interest = "writable"
    /\ \E r \in send_yet(Session) :
           /\ Commit(r)
           /\ remove_after_write(r)
    /\ last_op' = "send_yet"
    /\ UNCHANGED <<last_response, threads, web_vars>>

NextConc ==
    \/ \E t \in Threads : ConcSendTest(t)
    \/ \E t \in Threads : ConcSendWrite(t)
    \/ \E t \in Threads : ConcSendLater(t)
    \/ ConcSendYet

SpecConc == InitConc /\ [][NextConc]_vars

\* C2: with concurrent senders and no write error, the bytes of one block are
\* never interleaved with those of another block, no byte is on the wire
\* twice, the bytes of a block are in their order, and once every send has
\* returned and the queue is empty every submitted byte is on the wire.
C2_BlocksContiguous ==
    ~write_failed =>
        /\ \A i, j \in 1..Len(wire) :
               (i < j /\ BlockOf(wire[i]) = BlockOf(wire[j])) =>
                   /\ wire[i] < wire[j]
                   /\ \A k \in i..j : BlockOf(wire[k]) = BlockOf(wire[i])
        /\ ((\A t \in Threads : threads[t].pc = "done") /\ surpluses_to_write = <<>>)
               => Len(wire) = Len(submitted)

(***************************************************************************)
(* Part 3.  The HTTP request parser (request_parser.rs).  A byte is a      *)
(* string of one character; indices are those of the Rust code (from 0).   *)
(***************************************************************************)
CR == "\r"
LF == "\n"
SP == " "

\* const VERSION_LEN
VERSION_LEN == 8

\* ParseHttpRequestSettings::default
DefaultSettings ==
    [method_len_limit |-> 7, path_len_limit |-> 512, query_len_limit |-> 512,
     headers_count_limit |-> 16, header_name_len_limit |-> 32,
     header_value_len_limit |-> 512, pipelining_requests_limit |-> 64]

\* raw[a..b] and raw[i] of the Rust code
Slice(raw, a, b) == SubSeq(raw, a + 1, b)
At(raw, i) == raw[i + 1]

\* version_from_data
version_from_data(data) ==
    IF Len(data) # VERSION_LEN THEN "WrongLen"
    ELSE IF SubSeq(data, 1, 5) # <<"H", "T", "T", "P", "/">> THEN "WrongText"
    ELSE IF SubSeq(data, 6, 8) = <<"1", ".", "1">> THEN "Http1_1"
    ELSE IF SubSeq(data, 6, 8) = <<"1", ".", "0">> THEN "Http1_0"
    ELSE "UnsupportedProtocol"

Digits == <<"0", "1", "2", "3", "4", "5", "6", "7", "8", "9">>
IsDigit(c) == \E d \in 1..10 : Digits[d] = c
DigitValue(c) == (CHOOSE d \in 1..10 : Digits[d] = c) - 1

\* usize::MAX on the 64-bit target, as decimal digits
UsizeMaxDigits ==
    <<"1", "8", "4", "4", "6", "7", "4", "4", "0", "7", "3", "7", "0", "9", "5",
      "5", "1", "6", "1", "5">>

\* digits without their leading zeros
RECURSIVE strip_zeros(_)
strip_zeros(ds) ==
    IF ds # <<>> /\ Head(ds) = "0" THEN strip_zeros(Tail(ds)) ELSE ds

\* ds > max for two runs of digits of the same length
RECURSIVE digits_greater(_, _)
digits_greater(ds, max) ==
    IF ds = <<>> THEN FALSE
    ELSE IF DigitValue(Head(ds)) # DigitValue(Head(max))
    THEN DigitValue(Head(ds)) > DigitValue(Head(max))
    ELSE digits_greater(Tail(ds), Tail(max))

\* the number does not fit usize
overflows_usize(ds) ==
    LET sig == strip_zeros(ds) IN
    \/ Len(sig) > Len(UsizeMaxDigits)
    \/ Len(sig) = Len(UsizeMaxDigits) /\ digits_greater(sig, UsizeMaxDigits)

\* the value of a run of digits
RECURSIVE digits_value(_, _)
digits_value(ds, acc) ==
    IF ds = <<>> THEN acc
    ELSE digits_value(Tail(ds), acc * 10 + DigitValue(Head(ds)))

\* str::parse::<usize>: an optional '+', then one or more digits; -1 is Err
parse_usize(value) ==
    LET ds == IF value # <<>> /\ Head(value) = "+" THEN Tail(value) ELSE value IN
    IF ds = <<>> \/ \E k \in 1..Len(ds) : ~IsDigit(ds[k]) THEN -1
    ELSE IF overflows_usize(ds) THEN -1
    ELSE digits_value(ds, 0)

\* Parser::header_is_connection_type
header_is_connection_type(header) ==
    IF header.name = <<"C", "o", "n", "n", "e", "c", "t", "i", "o", "n">>
    THEN IF header.value = <<"k", "e", "e", "p", "-", "a", "l", "i", "v", "e">>
         THEN "KeepAlive"
         ELSE IF header.value = <<"c", "l", "o", "s", "e">> THEN "Close" ELSE "None"
    ELSE "None"

ContentLengthName ==
    <<"C", "o", "n", "t", "e", "n", "t", "-", "L", "e", "n", "g", "t", "h">>

\* Parser::header_is_content_length: Ok(None) is -1, Err is -2
header_is_content_length(header) ==
    IF header.name = ContentLengthName
    THEN IF parse_usize(header.value) >= 0 THEN parse_usize(header.value) ELSE -2
    ELSE -1

\* results of the scan
ScanPartial(p) == [kind |-> "Partial", error |-> "Partial", parser |-> p, request_len |-> 0]
ScanError(p, e) == [kind |-> "Error", error |-> e, parser |-> p, request_len |-> 0]
ScanPanic(p) == [kind |-> "Panic", error |-> "Panic", parser |-> p, request_len |-> 0]
ScanComplete(p, n) == [kind |-> "Complete", error |-> "None", parser |-> p, request_len |-> n]

\* a value that starts right after the separator, the space included
value_index_with_space(raw, sep) == sep + 1

\* the index of the value of a header whose separator is at sep
value_index(raw, sep) == IF At(raw, sep + 1) = SP THEN sep + 2 ELSE sep + 1

\* The end of a header line at index i ("\r\n" seen) in the Header state.
header_line(p, i) ==
    LET raw == p.request.raw
        header_index == p.parse_state.a
        header_separator_index == p.parse_state.b
    IN
    IF header_separator_index = 0 \/ i - header_separator_index < 2
    THEN ScanError(p, "WrongHeader")
    ELSE IF header_separator_index <= header_index
    THEN ScanError(p, "WrongHeader")
    ELSE LET value_idx == value_index(raw, header_separator_index) IN
         IF value_idx >= i - 1
         THEN ScanError(p, "WrongHeader")
         ELSE LET header == [name |-> Slice(raw, header_index, header_separator_index),
                             value |-> Slice(raw, value_idx, i - 1)]
                  connection_type ==
                      IF p.request.connection_type = "None"
                      THEN header_is_connection_type(header)
                      ELSE p.request.connection_type
                  content_len ==
                      IF p.request.content_len = -1
                      THEN header_is_content_length(header)
                      ELSE p.request.content_len
              IN
              IF content_len = -2
              THEN ScanError([p EXCEPT !.request.connection_type = connection_type],
                             "ContentLengthParseError")
              ELSE ScanPartial([p EXCEPT !.request.connection_type = connection_type,
                                         !.request.content_len = content_len,
                                         !.request.headers = Append(@, header),
                                         !.parse_state = ParseState("Header", i + 1, 0)])

\* a value limit check that leaves no room for the "\r\n" of the line
value_len_over_strict(i, header_separator_index, st) ==
    i - header_separator_index > st.header_value_len_limit

\* the value limit check of parse_yet at index i, the separator being known
value_len_over(i, header_separator_index, st) ==
    i - header_separator_index > st.header_value_len_limit + 2

\* One iteration of the loop of parse_yet at index i: either a final result or
\* kind "Partial" with the parser to go on with.
parse_byte(p, i, st) ==
    LET raw == p.request.raw
        ch == At(raw, i)
        ps == p.parse_state
    IN
    CASE ps.phase = "Method" ->
           IF ch = SP
           THEN ScanPartial([p EXCEPT !.request.method_end_index = i,
                                      !.parse_state = ParseState("Path", i + 1, 0)])
           ELSE IF ch = LF THEN ScanError(p, "RequestLine")
           ELSE IF i >= st.method_len_limit THEN ScanError(p, "MethodLenLimit")
           ELSE ScanPartial(p)
      [] ps.phase = "Path" ->
           IF ch = SP
           THEN ScanPartial([p EXCEPT !.request.path_indices = <<ps.a, i>>,
                                      !.parse_state = ParseState("Version", i + 1, 0)])
           ELSE IF ch = LF THEN ScanError(p, "RequestLine")
           ELSE IF ch = "?"
           THEN ScanPartial([p EXCEPT !.request.path_indices = <<ps.a, i>>,
                                      !.parse_state = ParseState("Query", i + 1, 0)])
           ELSE IF i - ps.a >= st.path_len_limit THEN ScanError(p, "PathLenLimit")
           ELSE ScanPartial(p)
      [] ps.phase = "Query" ->
           IF ch = SP
           THEN ScanPartial([p EXCEPT !.request.raw_query_indices = <<ps.a, i>>,
                                      !.parse_state = ParseState("Version", i + 1, 0)])
           ELSE IF ch = LF THEN ScanError(p, "RequestLine")
           ELSE IF i - ps.a >= st.query_len_limit THEN ScanError(p, "QueryLenLimit")
           ELSE ScanPartial(p)
      [] ps.phase = "Version" ->
           IF ch = LF
           THEN IF ps.a > i - 1 THEN ScanPanic(p)
                ELSE LET ver == version_from_data(Slice(raw, ps.a, i - 1)) IN
                     IF ver \in {"Http1_0", "Http1_1"}
                     THEN ScanPartial([p EXCEPT !.request.version = ver,
                                                !.parse_state = ParseState("Header", i + 1, 0)])
                     ELSE IF ver = "UnsupportedProtocol"
                     THEN ScanError(p, "UnsupportedProtocol")
                     ELSE ScanError(p, "WrongVersion")
           ELSE IF i - ps.a > VERSION_LEN THEN ScanError(p, "VersionLenLimit")
           ELSE ScanPartial(p)
      [] OTHER ->
           IF ch = LF /\ i < 3 THEN ScanPanic(p)
           ELSE IF ch = LF /\ Slice(raw, i - 3, i + 1) = <<CR, LF, CR, LF>>
           THEN ScanComplete(p, i + 1)
           ELSE IF ps.b = 0 /\ i - ps.a > st.header_name_len_limit
           THEN ScanError(p, "HeaderNameLenLimit")
           ELSE IF ps.b # 0 /\ value_len_over(i, ps.b, st)
           THEN ScanError(p, "HeaderValueLenLimit")
           ELSE IF ch = ":" /\ ps.b = 0
           THEN IF Len(p.request.headers) >= st.headers_count_limit
                THEN ScanError(p, "HeadersCountLimit")
                ELSE IF i <= ps.a THEN ScanError(p, "EmptyHeaderName")
                ELSE ScanPartial([p EXCEPT !.parse_state = ParseState("Header", ps.a, i)])
           ELSE IF ch = LF /\ Slice(raw, i - 1, i + 1) = <<CR, LF>>
           THEN header_line(p, i)
           ELSE ScanPartial(p)

\* the loop of parse_yet from index i
RECURSIVE parse_scan(_, _, _)
parse_scan(p, i, st) ==
    IF i >= Len(p.request.raw) THEN ScanPartial(p)
    ELSE LET r == parse_byte(p, i, st) IN
         IF r.kind = "Partial" THEN parse_scan(r.parser, i + 1, st) ELSE r

\* the surplus parse_yet returns when the head ends at request_len
\* a completion that keeps nothing past the head
parse_surplus_none(raw, request_len) == <<>>

\* the surplus of a completed parse: self.request.raw[request_len..]
parse_surplus(raw, request_len) == Slice(raw, request_len, Len(raw))

\* the end of Parser::parse_yet, after the scan r of the bytes
parse_end(r) ==
    IF r.kind = "Complete"
    THEN [kind |-> "Ok", error |-> "None",
          surplus |-> parse_surplus(r.parser.request.raw, r.request_len),
          parser |-> [r.parser EXCEPT !.parse_state = ParseState("Method", 0, 0),
                                      !.request.raw = Slice(@, 0, r.request_len)]]
    ELSE [kind |-> r.kind, error |-> r.error, surplus |-> <<>>, parser |-> r.parser]

\* Parser::parse_yet: kind is "Ok" (with surplus), "Partial", "Error" or "Panic"
parse_yet(p, buf, st) ==
    parse_end(parse_scan([p EXCEPT !.request.raw = @ \o buf], Len(p.request.raw), st))

\* Parser::restart
restart(p) == [p EXCEPT !.request = NewRequest]

\* on completion the request is handed out and the parser restarted
hand_out(r) ==
    IF r.kind = "Ok"
    THEN [r EXCEPT !.parser = restart(@)] @@ [request |-> r.parser.request]
    ELSE r @@ [request |-> NewRequest]

\* Parser::push as WebSession::parse_request uses it: parse_yet, then restart
push(p, buf, st) == hand_out(parse_yet(p, buf, st))

\* RequestData::raw_method, raw_path, raw_query, content_len
raw_method(request) ==
    IF request.method_end_index > Len(request.raw) THEN <<>>
    ELSE Slice(request.raw, 0, request.method_end_index)
raw_path(request) ==
    IF request.path_indices[1] > request.path_indices[2]
           \/ request.path_indices[2] > Len(request.raw)
    THEN <<>>
    ELSE Slice(request.raw, request.path_indices[1], request.path_indices[2])
raw_query(request) ==
    IF request.raw_query_indices[1] > request.raw_query_indices[2]
           \/ request.raw_query_indices[2] > Len(request.raw)
    THEN <<>>
    ELSE Slice(request.raw, request.raw_query_indices[1], request.raw_query_indices[2])
content_len(request) == IF request.content_len = -1 THEN 0 ELSE request.content_len

(***************************************************************************)
(* The WebSocket frame parser (websocket.rs).  A byte of a frame is a      *)
(* number 0..255.                                                          *)
(***************************************************************************)
CLOSE_OPCODE == 8
MASKING_KEY_LEN == 4

\* a ^ b on bytes
RECURSIVE xor(_, _)
xor(a, b) ==
    IF a = 0 THEN b
    ELSE IF b = 0 THEN a
    ELSE 2 * xor(a \div 2, b \div 2) + ((a + b) % 2)

\* ParsedFrame::new
NewParsedFrame ==
    [fin |-> FALSE, opcode |-> 0, first_byte |-> 0, buf |-> <<>>,
     payload_index |-> 0, payload_len |-> 0, masking_key_index |-> 0]

\* websocket::Parser::default
NewWebsocketParser ==
    [state |-> "ParseFirstByteWhereFinAndOpcode", frame |-> NewParsedFrame]

\* ParsedFrame::payload
payload(frame) == Slice(frame.buf, frame.payload_index, frame.payload_index + frame.payload_len)

\* ParsedFrame::mask
mask(frame) ==
    IF frame.masking_key_index = 0
           \/ frame.masking_key_index + MASKING_KEY_LEN > Len(frame.buf)
    THEN <<0, 0, 0, 0>>
    ELSE Slice(frame.buf, frame.masking_key_index, frame.masking_key_index + MASKING_KEY_LEN)

\* results of Parser::parse_yet
FrameNone(p) ==
    [kind |-> "None", error |-> "None", frame |-> NewParsedFrame, surplus |-> <<>>,
     parser |-> p]
FrameError(p, e) ==
    [kind |-> "Error", error |-> e, frame |-> NewParsedFrame, surplus |-> <<>>,
     parser |-> p]
\* an iteration that ends with `continue`
FrameContinue(p) ==
    [kind |-> "Continue", error |-> "None", frame |-> NewParsedFrame,
     surplus |-> <<>>, parser |-> p]

\* the 16-bit extended payload length: hi << 8 | low
extended_len_16(buf) == At(buf, 2) * 256 + At(buf, 3)

\* The 64-bit extended payload length: len starts as buf[2] and for i in 2..10
\* is shifted left by 8 and or-ed with buf[i]; the eight shifts push the
\* starting value out of the 64 bits, which leaves buf[2..10] big-endian.
\* exceeds tells len > payload_limit for a limit below 2^24; value is len
\* when the five high bytes are zero.
extended_len_64_exceeds(buf, payload_limit) ==
    \/ \E i \in 2..6 : At(buf, i) # 0
    \/ At(buf, 7) * 65536 + At(buf, 8) * 256 + At(buf, 9) > payload_limit
extended_len_64(buf) == At(buf, 7) * 65536 + At(buf, 8) * 256 + At(buf, 9)

\* a decoding that leaves the payload as it came
decode_masked(frame) == frame.buf

\* the decoding of a completed frame: bytes from payload_index on are xor-ed
\* with mask[i % 4]
decode(frame) ==
    [j \in 1..Len(frame.buf) |->
        IF j - 1 < frame.payload_index THEN frame.buf[j]
        ELSE xor(frame.buf[j], mask(frame)[((j - 1 - frame.payload_index) % 4) + 1])]

\* LoadPayloadData with the whole frame in the buffer
frame_complete(p, frame_len) ==
    LET result == [p.frame EXCEPT !.buf = Slice(@, 0, frame_len)] IN
    [kind |-> "Frame", error |-> "None",
     frame |-> [result EXCEPT !.buf = decode(result)],
     surplus |-> Slice(p.frame.buf, frame_len, Len(p.frame.buf)),
     parser |-> NewWebsocketParser]

\* a mask bit that reads as set whatever the byte
mask_bit_set(second_byte) == 128

\* second_byte & 0b1000_0000
mask_bit(second_byte) == (second_byte \div 128) * 128

\* one iteration of the loop of Parser::parse_yet
parse_frame_step(p, payload_limit) ==
    LET f == p.frame
        buf == p.frame.buf
    IN
    CASE p.state = "ParseFirstByteWhereFinAndOpcode" ->
           IF buf # <<>>
           THEN FrameContinue(
                    [p EXCEPT !.frame.first_byte = At(buf, 0),
                              !.frame.fin = At(buf, 0) >= 128,
                              !.frame.opcode = At(buf, 0) % 16,
                              !.state = "ParseSecondByteWhereMaskAndPayloadLen"])
           ELSE FrameNone(p)
      [] p.state = "ParseSecondByteWhereMaskAndPayloadLen" ->
           IF Len(buf) > 1
           THEN IF mask_bit(At(buf, 1)) = 0
                THEN FrameError(p, "UnmaskedClientMaessage")
                ELSE IF At(buf, 1) % 128 > payload_limit
                THEN FrameError([p EXCEPT !.frame.payload_len = At(buf, 1) % 128],
                                "PayloadLimit")
                ELSE IF At(buf, 1) % 128 < 126
                THEN FrameContinue([p EXCEPT !.frame.payload_len = At(buf, 1) % 128,
                                             !.frame.masking_key_index = 2,
                                             !.state = "ParseMaskingKey"])
                ELSE FrameContinue([p EXCEPT !.frame.payload_len = At(buf, 1) % 128,
                                             !.state = "ParseExtendedPayloadLen"])
           ELSE FrameNone(p)
      [] p.state = "ParseMaskingKey" ->
           IF Len(buf) >= f.masking_key_index + MASKING_KEY_LEN
           THEN FrameContinue(
                    [p EXCEPT !.frame.payload_index = f.masking_key_index + MASKING_KEY_LEN,
                              !.state = "LoadPayloadData"])
           ELSE FrameNone(p)
      [] p.state = "ParseExtendedPayloadLen" ->
           IF f.payload_len = 126
           THEN IF Len(buf) < 4 THEN FrameNone(p)
                ELSE IF extended_len_16(buf) > payload_limit
                THEN FrameError(p, "PayloadLimit")
                ELSE FrameContinue([p EXCEPT !.frame.payload_len = extended_len_16(buf),
                                             !.frame.masking_key_index = 4,
                                             !.state = "ParseMaskingKey"])
           ELSE IF Len(buf) < 10 THEN FrameNone(p)
                ELSE IF extended_len_64_exceeds(buf, payload_limit)
                THEN FrameError(p, "PayloadLimit")
                ELSE FrameContinue([p EXCEPT !.frame.payload_len = extended_len_64(buf),
                                             !.frame.masking_key_index = 10,
                                             !.state = "ParseMaskingKey"])
      [] OTHER ->
           IF Len(buf) >= f.payload_index + f.payload_len
           THEN frame_complete(p, f.payload_index + f.payload_len)
           ELSE FrameNone(p)

\* the loop of Parser::parse_yet
RECURSIVE parse_frame_loop(_, _)
parse_frame_loop(r, payload_limit) ==
    IF r.kind = "Continue"
    THEN parse_frame_loop(parse_frame_step(r.parser, payload_limit), payload_limit)
    ELSE r

\* a parse_yet that keeps only the new bytes in its buffer
parse_frame_yet_forgetting(p, tmp_buf, payload_limit) ==
    parse_frame_loop(FrameContinue([p EXCEPT !.frame.buf = tmp_buf]), payload_limit)

\* websocket::Parser::parse_yet: kind is "Frame" (with surplus), "None" or "Error"
parse_frame_yet(p, tmp_buf, payload_limit) ==
    parse_frame_loop(FrameContinue([p EXCEPT !.frame.buf = @ \o tmp_buf]), payload_limit)

(***************************************************************************)
(* Part 4.  The HTTP side of a session (web_session.rs, request.rs): the   *)
(* worker reads the inbound stream in chunks of any size and the session   *)
(* parses request heads and delivers request bodies.  The handlers of this *)
(* part answer, read the body, or fail; they do not upgrade to WebSocket.  *)
(***************************************************************************)
\* the read buffer of the worker: read_buf: [u8; 1024]
ReadBufLen == 1024

\* an entry of the log of callback invocations
Event(type, request, registered, bytes, completion, error, surplus, fed) ==
    [type |-> type, request |-> request, registered |-> registered,
     bytes |-> bytes, completion |-> completion, error |-> error,
     surplus |-> surplus, fed |-> fed]

\* the number of on-request deliveries in a log
RequestCount(events) ==
    Cardinality({j \in 1..Len(events) : events[j].type = "request"})

Log(c, e) == [c EXCEPT !.events = Append(@, e)]

\* the call of the body callback with (bytes, completion); it returns
\* body_result, and Err is answered with close() by the caller
call_content_callback(c, bytes, completion) ==
    LET logged == Log(c, Event("content", NewRequest, FALSE, bytes, completion,
                               "None", <<>>, c.fed)) IN
    IF c.body_result = "err" THEN close(logged, "content_callback_err") ELSE logged

\* Request::read_content, were it to install the callback whatever the length
request_read_content_install(c, request, k) ==
    [c EXCEPT !.content_callback = [installed |-> TRUE, request |-> k]]

\* Request::read_content called by the handler for its request number k
request_read_content(c, request, k) ==
    IF content_len(request) = 0
    THEN call_content_callback(c, <<>>, k)
    ELSE [c EXCEPT !.content_callback = [installed |-> TRUE, request |-> k]]

\* TcpSession::call_http_callback with Ok(request): the handler runs
call_http_callback_ok(c, request, surplus) ==
    LET k == RequestCount(c.events) + 1
        logged == Log(c, Event("request", request, c.handler = "read_content",
                               <<>>, 0, "None", surplus, c.fed))
    IN
    IF ~c.is_http_mode THEN c
    ELSE IF c.handler = "read_content" THEN request_read_content(logged, request, k)
    ELSE IF c.handler = "err" THEN close(logged, "http_callback_err")
    ELSE IF c.handler = "panic" THEN [logged EXCEPT !.unwound = TRUE]
    ELSE IF c.handler = "upgrade" THEN [logged EXCEPT !.web.websocket_callback = TRUE]
    ELSE logged

\* a delivery of Err(error) that reaches the handler twice
call_http_callback_err_twice(c, error) ==
    LET e == Event("error", NewRequest, FALSE, <<>>, 0, error, <<>>, c.fed) IN
    [Log(Log(c, e), e) EXCEPT !.unwound = (c.handler = "panic")]

\* TcpSession::call_http_callback with Err(error)
call_http_callback_err(c, error) ==
    IF ~c.is_http_mode THEN c
    ELSE [Log(c, Event("error", NewRequest, FALSE, <<>>, 0, error, <<>>, c.fed))
             EXCEPT !.unwound = (c.handler = "panic")]

\* a split that takes the whole read as content
content_mid_all(http, data) == Len(data)

\* where read_content splits the data: the bytes still missing from the body
content_mid(http, data) ==
    IF http.content_len - http.already_read_content_len < Len(data)
    THEN http.content_len - http.already_read_content_len
    ELSE Len(data)

\* a split that loses what follows the content
split_at_losing(data, mid) == <<SubSeq(data, 1, mid), <<>>>>

\* data.split_at(mid)
split_at(data, mid) == <<SubSeq(data, 1, mid), SubSeq(data, mid + 1, Len(data))>>

\* The recursive calls of process_data are the last statement of the method
\* that makes them: a method returns the session and the surplus that
\* process_data is called with next (none when the method just returns).
Return(c) == [c |-> c, surplus |-> <<>>]
Recurse(c, surplus) == [c |-> c, surplus |-> surplus]

\* WebSession::process_received_request
process_received_request(c, received_request, surplus) ==
    LET len == content_len(received_request)
        called == call_http_callback_ok(c, received_request, surplus)
        told == IF called.content_callback.installed /\ len = 0
                THEN call_content_callback(
                         [called EXCEPT !.content_callback.request = 0],
                         <<>>, called.content_callback.request)
                ELSE called
        kept == IF called.content_callback.installed
                THEN [told EXCEPT !.web.content_len = len,
                                  !.web.already_read_content_len = 0]
                ELSE told
        set == IF kept.web.websocket_callback
               THEN [kept EXCEPT !.is_http_mode = FALSE] ELSE kept
    IN
    IF called.unwound THEN Return(called)
    ELSE IF called.content_callback.installed /\ len = 0 /\ c.body_result = "err"
    THEN Return(told)
    ELSE IF surplus # <<>> /\ ~set.need_close
    THEN Recurse(set, surplus) ELSE Return(set)

\* WebSession::parse_request, the match on the result r of the parser
parse_request_match(c, r) ==
    IF r.kind = "Ok"
    THEN process_received_request([c EXCEPT !.web.request_parser = r.parser],
                                  r.request, r.surplus)
    ELSE IF r.kind = "Partial" THEN Return([c EXCEPT !.web.request_parser = r.parser])
    ELSE IF r.kind = "Panic"
    THEN Return([c EXCEPT !.web.request_parser = r.parser, !.web.panicked = TRUE])
    ELSE Return(close(call_http_callback_err(
                          [c EXCEPT !.web.request_parser = r.parser], r.error),
                      "parse_error"))

\* WebSession::parse_request
parse_request(c, data) ==
    IF c.web.pipelining_http_requests_count + 1 > c.settings.pipelining_requests_limit
    THEN Return(close(call_http_callback_err(
                          [c EXCEPT !.web.pipelining_http_requests_count = @ + 1],
                          "PipeliningRequestsLimit"),
                      "pipelining_limit"))
    ELSE parse_request_match([c EXCEPT !.web.pipelining_http_requests_count = @ + 1],
                             push(c.web.request_parser, data, c.settings))

\* WebSession::read_content
read_content(c, data) ==
    LET mid == content_mid(c.web, data)
        content == split_at(data, mid)[1]
        surplus == split_at(data, mid)[2]
        read == [c EXCEPT !.web.already_read_content_len = @ + Len(content)]
        complete == read.web.already_read_content_len >= read.web.content_len
        completion == IF complete THEN read.content_callback.request ELSE 0
        taken == IF complete THEN [read EXCEPT !.content_callback.request = 0] ELSE read
        told == call_content_callback(taken, content, completion)
        reset == [told EXCEPT !.content_callback = NoContentCallback,
                              !.web.content_len = 0,
                              !.web.already_read_content_len = 0]
    IN
    IF told.need_close THEN Return(told)
    ELSE IF complete THEN Recurse(reset, surplus)
    ELSE Return(told)

\* an entry of the log for a frame handed to the frame callback: registered
\* holds fin, completion the opcode, bytes the payload
FrameEvent(frame, surplus, fed) ==
    Event("frame", NewRequest, frame.fin, payload(frame), frame.opcode, "None",
          surplus, fed)

\* a call of the frame callback whose Err is not answered
call_websocket_callback_ok_unanswered(c, frame, surplus) ==
    IF ~c.web.websocket_callback THEN c
    ELSE Log(c, FrameEvent(frame, surplus, c.fed))

\* TcpSession::call_websocket_callback with Ok(frame); the callback returns
\* body_result, and Err is answered with close()
call_websocket_callback_ok(c, frame, surplus) ==
    IF ~c.web.websocket_callback THEN c
    ELSE IF c.body_result = "err"
    THEN close(Log(c, FrameEvent(frame, surplus, c.fed)), "websocket_callback_err")
    ELSE Log(c, FrameEvent(frame, surplus, c.fed))

\* TcpSession::call_websocket_callback with Err(ParseFrameError(error))
call_websocket_callback_err(c, error) ==
    IF ~c.web.websocket_callback THEN c
    ELSE Log(c, Event("frame_error", NewRequest, FALSE, <<>>, 0, error, <<>>, c.fed))

\* an is_close that no frame satisfies
frame_is_close_never(frame) == FALSE

\* ParsedFrame::is_close
frame_is_close(frame) == frame.opcode = CLOSE_OPCODE

\* WebSession::on_websocket_read, the match on the result r of the parser
on_websocket_read_match(c, r) ==
    IF r.kind = "Frame"
    THEN IF frame_is_close(r.frame)
         THEN Return(close(call_websocket_callback_ok(
                               [c EXCEPT !.web.websocket_parser = r.parser],
                               r.frame, r.surplus),
                           "close_frame"))
         ELSE Recurse(call_websocket_callback_ok(
                          [c EXCEPT !.web.websocket_parser = r.parser],
                          r.frame, r.surplus),
                      r.surplus)
    ELSE IF r.kind = "None"
    THEN Return([c EXCEPT !.web.websocket_parser = r.parser])
    ELSE Return(close(call_websocket_callback_err(
                          [c EXCEPT !.web.websocket_parser = r.parser], r.error),
                      "frame_error"))

\* an on_websocket_read that leaves the bytes unparsed
on_websocket_read_dropping(c, data) == Return(c)

\* WebSession::on_websocket_read
on_websocket_read(c, data) ==
    on_websocket_read_match(
        c, parse_frame_yet(c.web.websocket_parser, data, c.payload_limit))

\* WebSession::process_data, the detection of the upgrade: a session in the
\* Http state whose frame callback slot is set moves to the Websocket state
\* with a new parser
detect_upgrade(c) ==
    IF c.web.state = "Http" /\ c.web.websocket_callback
    THEN [c EXCEPT !.web.state = "Websocket",
                   !.web.websocket_parser = NewWebsocketParser]
    ELSE c

\* process_data, were it to parse the data of a session that needs to close
process_data_returns_never(c) == c.unwound

\* the test at the top of process_data: the method returns at once
process_data_returns(c) == c.need_close \/ c.unwound

\* WebSession::process_data
RECURSIVE process_data(_, _)
process_data(c, data) ==
    IF process_data_returns(c) THEN c
    ELSE LET r == IF c.web.state = "Websocket" \/ c.web.websocket_callback
                  THEN on_websocket_read(detect_upgrade(c), data)
                  ELSE IF ~c.content_callback.installed
                  THEN parse_request(c, data) ELSE read_content(c, data)
         IN IF r.surplus # <<>> THEN process_data(r.c, r.surplus) ELSE r.c

(***************************************************************************)
(* The peer: the requests it sends, as text on the wire.                   *)
(***************************************************************************)
\* most requests the peer sends on one connection
MaxRequests == 2
\* longest read that ends before the end of the stream
MaxChunk == 3

\* HttpVersion::to_string_for_response: the text of the version
to_string_for_response(version) ==
    IF version = "Http1_0" THEN <<"H", "T", "T", "P", "/", "1", ".", "0">>
    ELSE <<"H", "T", "T", "P", "/", "1", ".", "1">>

\* usize::to_string
RECURSIVE to_string(_)
to_string(n) ==
    IF n < 10 THEN <<Digits[n + 1]>>
    ELSE to_string(n \div 10) \o <<Digits[(n % 10) + 1]>>

Header(name, value, space) == [name |-> name, value |-> value, space |-> space]

\* the header lines of a request, as the peer orders them
HeadersOf(d) ==
    (IF d.connection = "Close"
     THEN <<Header(<<"C", "o", "n", "n", "e", "c", "t", "i", "o", "n">>,
                   <<"c", "l", "o", "s", "e">>, FALSE)>>
     ELSE IF d.connection = "KeepAlive"
     THEN <<Header(<<"C", "o", "n", "n", "e", "c", "t", "i", "o", "n">>,
                   <<"k", "e", "e", "p", "-", "a", "l", "i", "v", "e">>, TRUE)>>
     ELSE <<>>)
    \o d.extra
    \o (IF d.content_length >= 0
        THEN <<Header(ContentLengthName, to_string(d.content_length), TRUE)>>
        ELSE <<>>)

RECURSIVE RenderHeaders(_)
RenderHeaders(hs) ==
    IF hs = <<>> THEN <<>>
    ELSE hs[1].name \o <<":">> \o (IF hs[1].space THEN <<SP>> ELSE <<>>)
             \o hs[1].value \o <<CR, LF>> \o RenderHeaders(SubSeq(hs, 2, Len(hs)))

\* the head of a request on the wire, up to and including the empty line
RenderHead(d) ==
    d.method \o <<SP>> \o d.path
        \o (IF d.has_query THEN <<"?">> \o d.query ELSE <<>>)
        \o <<SP>> \o to_string_for_response(d.version) \o <<CR, LF>>
        \o RenderHeaders(HeadersOf(d)) \o <<CR, LF>>

RenderRequest(d) == RenderHead(d) \o d.body

RECURSIVE RenderStream(_)
RenderStream(ds) ==
    IF ds = <<>> THEN <<>>
    ELSE RenderRequest(ds[1]) \o RenderStream(SubSeq(ds, 2, Len(ds)))

Desc(method, path, has_query, query, version, connection, extra, content_length, body) ==
    [method |-> method, path |-> path, has_query |-> has_query, query |-> query,
     version |-> version, connection |-> connection, extra |-> extra,
     content_length |-> content_length, body |-> body]

\* the requests the peer chooses from
RequestKinds ==
    { Desc(<<"G", "E", "T">>, <<"/">>, FALSE, <<>>, "Http1_1", "None", <<>>, -1, <<>>),
      Desc(<<"P", "O", "S", "T">>, <<"/">>, FALSE, <<>>, "Http1_1", "Close", <<>>,
           2, <<"h", "i">>),
      Desc(<<"P", "U", "T">>, <<"/", "a">>, TRUE, <<"x">>, "Http1_0", "KeepAlive",
           <<Header(<<"A">>, <<"b">>, FALSE)>>, 0, <<>>) }

\* what the application does: the on-request handler answers ("ok"), calls
\* Request::read_content ("read_content") or returns Err ("err"); the body
\* callback returns Ok or Err
Inbounds ==
    { [descs |-> ds, handler |-> h, body_result |-> b, tail |-> <<>>,
       limit |-> DefaultSettings.pipelining_requests_limit,
       payload_limit |-> WEBSOCKET_PAYLOAD_LIMIT] :
        ds \in UNION { [1..k -> RequestKinds] : k \in 1..MaxRequests },
        h \in {"ok", "read_content", "err"}, b \in {"ok", "err"} }

Stream == RenderStream(inbound.descs) \o inbound.tail

(***************************************************************************)
(* Actions of the read path.                                               *)
(***************************************************************************)
\* the session and its HTTP state as one record, for a read that ends at fed
Context(fed) ==
    Session @@ [web |-> web, content_callback |-> content_callback,
                events |-> http_events, handler |-> inbound.handler,
                body_result |-> inbound.body_result,
                settings |-> [DefaultSettings EXCEPT
                                 !.pipelining_requests_limit = inbound.limit],
                payload_limit |-> inbound.payload_limit, fed |-> fed]

InitWeb ==
    /\ Accepted([NewSession EXCEPT !.is_http_mode = TRUE])
    /\ inbound \in {i \in Inbounds : i.handler = "read_content" \/ i.body_result = "ok"}
    /\ pos = 0
    /\ web = NewWebSession
    /\ content_callback = NoContentCallback
    /\ http_events = <<>>

\* the lengths of the next read: short ones, and everything the peer has sent
\* What the peer has sent: a peer whose upgrade is accepted by another
\* thread, some time after the handler returned, sends its frames once the
\* upgrade is accepted; every other peer sends all it has to send at once.
Sent ==
    IF inbound.handler = "upgrade_later" /\ ~web.websocket_callback
    THEN Len(RenderStream(inbound.descs)) ELSE Len(Stream)

ChunkLens ==
    {n \in 1..(Sent - pos) :
        n <= MaxChunk \/ (n = Sent - pos /\ n <= ReadBufLen)}

CommitWeb(c) ==
    /\ Commit(c)
    /\ web' = c.web
    /\ content_callback' = c.content_callback
    /\ http_events' = c.events

\* a readable event whose read returns n bytes: WebSession::read_stream
ReadChunk ==
    /\ worker.alive
    /\ tcp_clients
    /\ \E n \in ChunkLens :
           LET data == SubSeq(Stream, pos + 1, pos + n)
               c0 == [Context(pos + n) EXCEPT !.web.pipelining_http_requests_count = 0]
               c == process_data(c0, data)
           IN
           /\ CommitWeb(c)
           /\ remove_after_read(c, c.web.panicked \/ c.unwound)
           /\ pos' = pos + n
    /\ last_op' = "read_stream"
    /\ UNCHANGED <<threads, inbound, last_response>>

\* a readable event whose read returns 0 bytes, WouldBlock or an error
ReadNothing ==
    /\ worker.alive
    /\ tcp_clients
    /\ \E result \in {"eof", "wouldblock", "error"} :
           LET c0 == [Context(pos) EXCEPT !.web.pipelining_http_requests_count = 0]
               c == read_stream(c0, result)
           IN
           /\ CommitWeb(c)
           /\ remove_after_read(c, c.web.panicked \/ c.unwound)
    /\ last_op' = "read_nothing"
    /\ UNCHANGED <<threads, inbound, pos, last_response>>

NextWeb ==
    \/ ReadChunk
    \/ ReadNothing

SpecWeb == InitWeb /\ [][NextWeb]_vars

(***************************************************************************)
(* Properties of the read path.                                            *)
(***************************************************************************)
\* the on-request deliveries, in order
Requests == SelectSeq(http_events, LAMBDA e : e.type = "request")

\* the number of the request that the event at index i belongs to
Ordinal(i) ==
    Cardinality({j \in 1..i : http_events[j].type = "request"})

\* where the head of request k, and request k with its body, end in the stream
HeadEnd(k) ==
    Len(RenderStream(SubSeq(inbound.descs, 1, k - 1))) + Len(RenderHead(inbound.descs[k]))
RequestEnd(k) == Len(RenderStream(SubSeq(inbound.descs, 1, k)))

\* the number of heads that end within the bytes read so far
HeadsRead == Cardinality({k \in 1..Len(inbound.descs) : HeadEnd(k) <= pos})

\* what the application sees of a delivered request
Parsed(request) ==
    [method |-> raw_method(request), path |-> raw_path(request),
     query |-> raw_query(request), version |-> request.version,
     headers |-> request.headers, content_len |-> request.content_len,
     connection_type |-> request.connection_type, raw |-> request.raw]

\* what the peer sent
Expected(d) ==
    [method |-> d.method, path |-> d.path,
     query |-> IF d.has_query THEN d.query ELSE <<>>, version |-> d.version,
     headers |-> [i \in 1..Len(HeadersOf(d)) |->
                     [name |-> HeadersOf(d)[i].name, value |-> HeadersOf(d)[i].value]],
     content_len |-> d.content_length, connection_type |-> d.connection,
     raw |-> RenderHead(d)]

\* the body-callback invocations that belong to request k, in order
RECURSIVE BodyEventsFrom(_, _)
BodyEventsFrom(i, k) ==
    IF i > Len(http_events) THEN <<>>
    ELSE (IF http_events[i].type = "content" /\ Ordinal(i) = k
          THEN <<http_events[i]>> ELSE <<>>) \o BodyEventsFrom(i + 1, k)
BodyEvents(k) == BodyEventsFrom(1, k)

RECURSIVE Bytes(_)
Bytes(es) == IF es = <<>> THEN <<>> ELSE es[1].bytes \o Bytes(SubSeq(es, 2, Len(es)))

HeadsOnly == \A i \in 1..Len(inbound.descs) : inbound.descs[i].body = <<>>

\* C3: a stream of K complete request heads, read in chunks of any sizes,
\* yields exactly the K requests that were sent, in order, each with the
\* content the peer wrote, and the surplus handed out with each request is
\* exactly the bytes of the read that follow the empty line ending its head.
C3_ChunkIndependentParse ==
    HeadsOnly =>
        /\ \A i \in 1..Len(http_events) : http_events[i].type # "error"
        /\ Len(Requests) <= Len(inbound.descs)
        /\ \A k \in 1..Len(Requests) :
               /\ Parsed(Requests[k].request) = Expected(inbound.descs[k])
               /\ Requests[k].surplus = SubSeq(Stream, HeadEnd(k) + 1, Requests[k].fed)
        /\ (~need_close => Len(Requests) = HeadsRead)

\* two heads were read to the end, the read that completed the first head
\* ended inside the second
C3_Witness ==
    /\ HeadsOnly
    /\ ~need_close
    /\ pos = Len(Stream)
    /\ Len(Requests) = 2
    /\ Requests[1].surplus # <<>>
    /\ Requests[1].fed < Requests[2].fed

\* C4: for a request with Content-Length N > 0 whose handler registered a body
\* callback, the slices passed to the callback are the body in order and sum
\* to N, and the completion handle comes with the last invocation only.
C4_BodyDelivery ==
    \A k \in 1..Len(Requests) :
        (Requests[k].registered /\ Requests[k].request.content_len > 0) =>
            LET body == BodyEvents(k)
                bytes == Bytes(body)
                N == Requests[k].request.content_len
            IN
            /\ Len(bytes) <= N
            /\ bytes = SubSeq(inbound.descs[k].body, 1, Len(bytes))
            /\ \A j \in 1..Len(body) :
                   body[j].completion # 0 =>
                       j = Len(body) /\ body[j].completion = k /\ Len(bytes) = N
            /\ (Len(bytes) = N => body[Len(body)].completion = k)
            /\ ((~need_close /\ pos >= RequestEnd(k)) => Len(bytes) = N)

\* a body of more than one byte arrived in more than one invocation
C4_Witness ==
    \E k \in 1..Len(Requests) :
        /\ Requests[k].registered
        /\ Requests[k].request.content_len > 1
        /\ Len(BodyEvents(k)) > 1
        /\ BodyEvents(k)[Len(BodyEvents(k))].completion = k

\* C5: the bytes of a read that follow the end of a request body are parsed as
\* the start of the next request, and the body callback is uninstalled before
\* that: every head read so far was delivered as sent, an installed callback
\* is that of the latest request, and the parser holds what follows the
\* latest complete request.
C5_SurplusAfterBody ==
    (inbound.handler = "read_content" /\ ~need_close) =>
        /\ Len(Requests) = HeadsRead
        /\ \A k \in 1..Len(Requests) :
               Parsed(Requests[k].request) = Expected(inbound.descs[k])
        /\ content_callback.installed =>
               /\ content_callback.request = Len(Requests)
               /\ web.request_parser.request.raw = <<>>
               /\ pos < RequestEnd(Len(Requests))
        /\ ~content_callback.installed =>
               web.request_parser.request.raw =
                   SubSeq(Stream, RequestEnd(Len(Requests)) + 1, pos)

\* one read delivered the end of a body and the request that follows it, and
\* that request installed its own body callback
C5_Witness ==
    \E i \in 1..(Len(http_events) - 1) :
        /\ http_events[i].type = "content"
        /\ http_events[i].bytes # <<>>
        /\ http_events[i].completion # 0
        /\ http_events[i + 1].type = "request"
        /\ http_events[i + 1].fed = http_events[i].fed
        /\ http_events[i + 1].request.content_len > 0
        /\ ~need_close

\* C6: for a request with Content-Length: 0 whose handler registers a body
\* callback, the callback is invoked once, during the registration, with no
\* bytes and the completion handle, and nothing stays installed.
C6_EmptyBodyImmediate ==
    \A i \in 1..Len(http_events) :
        (/\ http_events[i].type = "request"
         /\ http_events[i].registered
         /\ http_events[i].request.content_len = 0) =>
            /\ i + 1 <= Len(http_events)
            /\ http_events[i + 1].type = "content"
            /\ http_events[i + 1].bytes = <<>>
            /\ http_events[i + 1].completion = Ordinal(i)
            /\ http_events[i + 1].fed = http_events[i].fed
            /\ (i + 2 <= Len(http_events) => http_events[i + 2].type # "content")
            /\ (Ordinal(i) = Len(Requests) => ~content_callback.installed)

\* a request that declared Content-Length: 0 had its body callback called, and
\* the session went on to deliver the next request
C6_Witness ==
    \E i \in 1..(Len(http_events) - 2) :
        /\ http_events[i].type = "request"
        /\ http_events[i].registered
        /\ http_events[i].request.content_len = 0
        /\ http_events[i + 1].type = "content"
        /\ http_events[i + 2].type = "request"

\* C7: a handler that registers a body callback for a request without a
\* Content-Length header makes the session fail: the on-request callback
\* receives TryLoadContentWhenNoContentLen, the session is closed, and the
\* body callback never receives a completion.
C7_NoContentLenFails ==
    \A i \in 1..Len(http_events) :
        (/\ http_events[i].type = "request"
         /\ http_events[i].registered
         /\ http_events[i].request.content_len = -1) =>
            /\ need_close
            /\ \E j \in (i + 1)..Len(http_events) :
                   /\ http_events[j].type = "error"
                   /\ http_events[j].error = "TryLoadContentWhenNoContentLen"
            /\ \A j \in 1..Len(http_events) :
                   ~(http_events[j].type = "content"
                       /\ http_events[j].completion = Ordinal(i))

(***************************************************************************)
(* Part 5.  The life of a connection in the worker (worker.rs): accept,    *)
(* the events of the session, removal.  The application installs its       *)
(* callbacks or closes the session inside the Connected callback; its      *)
(* on-request callback answers, fails or panics.                           *)
(***************************************************************************)
\* what the application does inside the Connected callback
ConnectedReactions == {"to_http", "close"}

\* the event callback called with Event::Connected(session)
connected_callback(r, reaction) ==
    IF reaction = "close" THEN close(r, "application")
    ELSE [r EXCEPT !.is_http_mode = TRUE]

\* the accept branch, were it to register the stream before it emits Connected
accept_events_register_first(closed, register_result) ==
    IF register_result = "ok" \/ closed THEN <<"Connected">>
    ELSE <<"RegisterError", "Disconnected", "Connected">>

\* the events that the accept branch of process_mio_events emits, in order
accept_events(closed, register_result) ==
    IF closed THEN <<"Connected">>
    ELSE IF register_result = "ok" THEN <<"Connected">>
    ELSE <<"Connected", "RegisterError", "Disconnected">>

\* the number of times the event e was emitted
Emitted(e) == Cardinality({i \in 1..Len(worker.events) : worker.events[i] = e})

\* the peer and the application of this part: one request without a body
WorkerInbounds ==
    { [descs |-> <<d>>, handler |-> h, body_result |-> "ok", tail |-> <<>>,
       limit |-> DefaultSettings.pipelining_requests_limit,
       payload_limit |-> WEBSOCKET_PAYLOAD_LIMIT] :
        d \in {k \in RequestKinds : k.content_length = -1},
        h \in {"ok", "err", "panic"} }

\* the listener before the connection arrives
InitWorker ==
    /\ SessionIs([NewSession EXCEPT !.interest = "none"])
    /\ tcp_clients = FALSE
    /\ worker = WorkerThread("listening", <<>>, FALSE)
    /\ inbound \in WorkerInbounds
    /\ pos = 0
    /\ web = NewWebSession
    /\ content_callback = NoContentCallback
    /\ http_events = <<>>

\* Worker::process_mio_events for the listener: accept, Connected, register
Accept ==
    /\ worker.alive
    /\ worker.accept_pc = "listening"
    /\ \E reaction \in ConnectedReactions, register_result \in {"ok", "err"} :
           LET r == connected_callback(Session, reaction)
               inserted == ~r.need_close /\ register_result = "ok"
               events == accept_events(r.need_close, register_result)
           IN
           /\ Commit([r EXCEPT !.interest = IF inserted THEN "readable" ELSE @])
           /\ tcp_clients' = inserted
           /\ worker' = [worker EXCEPT !.accept_pc = "done", !.events = @ \o events]
           /\ disconnected' =
                  disconnected
                      + Cardinality({i \in 1..Len(events) : events[i] = "Disconnected"})
    /\ last_op' = "accept"
    /\ UNCHANGED <<threads, web_vars, last_response>>

\* the application calls send or close on the handle it got with Connected
HandleSend == worker.accept_pc = "done" /\ Send
HandleClose == worker.accept_pc = "done" /\ Close

NextWorker ==
    \/ Accept
    \/ HandleSend
    \/ HandleClose
    \/ ReadChunk
    \/ ReadNothing
    \/ WritableEvent
    \/ RemoveDisconnected

SpecWorker == InitWorker /\ [][NextWorker]_vars

\* C11: for every accepted connection Disconnected is emitted exactly once:
\* never twice, and once the accept branch is over and the session is not in
\* the worker's table, it has been emitted.
C11_ClosedExactlyOnce ==
    /\ Emitted("Disconnected") <= 1
    /\ (worker.accept_pc = "done" /\ ~tcp_clients /\ worker.alive)
           => Emitted("Disconnected") = 1

\* C12: Connected is the first event of a session: no Disconnected, no
\* Panicked and no callback of the session comes before it.
C12_IncomingFirst ==
    /\ worker.events # <<>> => worker.events[1] = "Connected"
    /\ Emitted("Connected") <= 1
    /\ (http_events # <<>> \/ stream_errors # <<>> \/ tcp_clients)
           => Emitted("Connected") = 1

\* a request was delivered to the handler and the session was removed afterwards
C12_Witness ==
    /\ http_events # <<>>
    /\ Emitted("Connected") = 1
    /\ Emitted("Disconnected") = 1

\* C13: a panic of an application callback that the worker called is caught:
\* the worker keeps running, Panicked is emitted and the session is removed.
C13_PanicIsCaught ==
    /\ worker.alive
    /\ Emitted("Panicked") <= 1
    /\ Emitted("Panicked") = 1 => (~tcp_clients /\ Emitted("Disconnected") = 1)

(***************************************************************************)
(* Part 6.  The session mutexes around the callbacks.  The worker thread   *)
(* invokes a callback while it holds the mutexes of the call site; the     *)
(* callback calls the session's API, which locks mutexes of the same       *)
(* session on the same thread.  std::sync::Mutex is not reentrant: a lock  *)
(* by the thread that holds it does not return.                            *)
(***************************************************************************)

\* the Mutex fields of InnerTcpSession
Locks ==
    {"mio_stream", "tls_session", "surpluses_to_write", "on_data_received_callback",
     "http_request_callback", "content_callback", "websocket_callback"}

\* the places where the worker thread invokes an application callback
CallSites ==
    {"on_data_received", "on_request", "on_request_write_error",
     "on_request_reregister_error", "on_body_chunk", "on_frame",
     "on_frame_write_error"}

\* the mutexes the worker thread holds when it invokes the callback of a site
held_at(site, tls) ==
    CASE site = "on_data_received" ->
             {"on_data_received_callback"} \cup (IF tls THEN {"tls_session"} ELSE {})
      [] site = "on_request" -> {"http_request_callback"}
      [] site = "on_request_write_error" ->
             {"surpluses_to_write", "http_request_callback"}
      [] site = "on_request_reregister_error" ->
             {"surpluses_to_write", "mio_stream", "http_request_callback"}
      [] site = "on_body_chunk" -> {"content_callback"}
      [] site = "on_frame" -> {"websocket_callback"}
      [] site = "on_frame_write_error" -> {"surpluses_to_write", "websocket_callback"}

\* the site is one the session's mode dispatches to
site_enabled(site, http_mode) ==
    CASE site = "on_data_received" -> TRUE
      [] site \in {"on_frame", "on_frame_write_error"} -> ~http_mode
      [] OTHER -> http_mode

\* the calls of its own session a callback makes
CallbackOps == {"send", "to_http", "read_content", "close"}

\* the calls the callback of a site can make: read_content consumes a Request,
\* which only the on-request callback and the last body chunk are given
ops_at(site) ==
    IF site \in {"on_request", "on_body_chunk"} THEN CallbackOps
    ELSE CallbackOps \ {"read_content"}

\* the mutexes a call locks: send locks the queue, then write locks the TLS
\* engine and the stream; to_http locks the on-request slot; read_content of a
\* request with a body locks the body slot; close stores an atomic
locks_of(op, tls) ==
    CASE op = "send" ->
             {"surpluses_to_write", "mio_stream"} \cup (IF tls THEN {"tls_session"} ELSE {})
      [] op = "to_http" -> {"http_request_callback"}
      [] op = "read_content" -> {"content_callback"}
      [] op = "close" -> {}

\* a session in the table, in any mode, with or without TLS, no callback running
InitLock ==
    \E http_mode \in BOOLEAN :
        /\ SessionIs([NewSession EXCEPT !.is_http_mode = http_mode])
        /\ tcp_clients = TRUE
        /\ \E tls \in BOOLEAN : worker = WorkerThread("done", <<"Connected">>, tls)
        /\ inbound = NoInbound
        /\ pos = 0
        /\ web = NewWebSession
        /\ content_callback = NoContentCallback
        /\ http_events = <<>>

InCallback == worker.calling # "none" /\ worker.blocked = "none"

\* the worker thread locks the mutexes of a call site and invokes the callback
InvokeCallback ==
    /\ worker.calling = "none"
    /\ ~need_close
    /\ \E site \in CallSites :
        /\ site_enabled(site, is_http_mode)
        /\ worker' = [worker EXCEPT !.calling = site, !.held = held_at(site, worker.tls)]
    /\ UNCHANGED <<surpluses_to_write, need_close, need_close_after_sending,
                   is_http_mode, interest, tcp_clients, wire, submitted, close_by,
                   write_failed, stream_errors, disconnected, last_op,
                   last_response, others>>

\* the callback returns and the worker thread unlocks
CallbackReturn ==
    /\ InCallback
    /\ worker' = [worker EXCEPT !.calling = "none", !.held = {}]
    /\ UNCHANGED <<surpluses_to_write, need_close, need_close_after_sending,
                   is_http_mode, interest, tcp_clients, wire, submitted, close_by,
                   write_failed, stream_errors, disconnected, last_op,
                   last_response, others>>

CanCall(op) ==
    /\ InCallback
    /\ op \in ops_at(worker.calling)

Free(op) == locks_of(op, worker.tls) \cap worker.held = {}

\* the callback calls send on its own session and the call returns
CallbackSend == CanCall("send") /\ Free("send") /\ Send

\* the callback calls close on its own session
CallbackClose == CanCall("close") /\ Free("close") /\ Close

\* the callback calls to_http on its own session and the call returns
CallbackToHttp == CanCall("to_http") /\ Free("to_http") /\ ToHttp

\* the callback calls read_content of a request with a body: the body slot is set
CallbackReadContent ==
    /\ CanCall("read_content") /\ Free("read_content")
    /\ ~content_callback.installed
    /\ content_callback' = [installed |-> TRUE, request |-> 1]
    /\ last_op' = "read_content"
    /\ UNCHANGED <<surpluses_to_write, need_close, need_close_after_sending,
                   is_http_mode, interest, tcp_clients, wire, submitted, close_by,
                   write_failed, stream_errors, disconnected, worker,
                   last_response, threads, inbound, pos, web, http_events>>

\* the callback makes a call that locks a mutex its own thread holds: the
\* call does not return
CallbackBlocks ==
    \E op \in CallbackOps :
        /\ CanCall(op)
        /\ ~Free(op)
        /\ worker' = [worker EXCEPT !.blocked = op]
        /\ UNCHANGED <<surpluses_to_write, need_close, need_close_after_sending,
                       is_http_mode, interest, tcp_clients, wire, submitted, close_by,
                       write_failed, stream_errors, disconnected, last_op,
                       last_response, others>>

NextLock ==
    \/ InvokeCallback
    \/ CallbackReturn
    \/ CallbackSend
    \/ CallbackClose
    \/ CallbackToHttp
    \/ CallbackReadContent
    \/ CallbackBlocks

SpecLock == InitLock /\ [][NextLock]_vars

\* C14: a callback that calls send, read_content or to_http on its own
\* session is never stuck in the call: the worker thread holds none of the
\* mutexes the call locks while it runs the callback.
C14_CallbackNeverBlocks == worker.blocked = "none"

(***************************************************************************)
(* Part 7.  Pipelined requests, malformed requests and the limit of        *)
(* requests per read (WebSession::parse_request).                          *)
(***************************************************************************)
\* largest pipelining_requests_limit that is tried
MaxLimit == 2

\* a request without headers or body
BareGet == Desc(<<"G", "E", "T">>, <<"/">>, FALSE, <<>>, "Http1_1", "None", <<>>, -1, <<>>)

\* what the peer sends after its complete requests: nothing, the start of a
\* request, or a malformed request line followed by one more byte; error is
\* the RequestError of the parser for it
Tails ==
    { [bytes |-> <<>>, error |-> "None"],
      [bytes |-> <<"G">>, error |-> "Partial"],
      [bytes |-> <<"X", LF, "Z">>, error |-> "RequestLine"],
      [bytes |-> <<"G", SP, "/", SP, "x", LF, "Z">>, error |-> "WrongVersion"] }

\* the Tails entry of the connection
TailOf == CHOOSE t \in Tails : t.bytes = inbound.tail

PipeInbounds ==
    { [descs |-> [i \in 1..k |-> BareGet], handler |-> h, body_result |-> "ok",
       tail |-> t.bytes, limit |-> l, payload_limit |-> WEBSOCKET_PAYLOAD_LIMIT] :
        k \in 0..(MaxLimit + 1), h \in {"ok", "err"}, t \in Tails, l \in 1..MaxLimit }

InitPipe ==
    /\ Accepted([NewSession EXCEPT !.is_http_mode = TRUE])
    /\ inbound \in {i \in PipeInbounds : Len(i.descs) + Len(i.tail) > 0}
    /\ pos = 0
    /\ web = NewWebSession
    /\ content_callback = NoContentCallback
    /\ http_events = <<>>

SpecPipe == InitPipe /\ [][NextWeb]_vars

\* the deliveries of a parser error to the on-request callback
ParseErrors ==
    SelectSeq(http_events, LAMBDA e : e.type = "error"
                                      /\ e.error # "PipeliningRequestsLimit"
                                      /\ e.error # "StreamError")

\* C15: a parser error other than need-more is delivered to the on-request
\* callback exactly once, as the last callback of the session, which is then
\* close-requested; while the parser only needs more bytes nothing is
\* delivered and the session stays open (read with the limit not in play).
C15_ParseErrorOnceThenClose ==
    /\ Len(ParseErrors) <= 1
    /\ Len(ParseErrors) = 1 =>
           /\ http_events[Len(http_events)] = ParseErrors[1]
           /\ ParseErrors[1].error = TailOf.error
           /\ need_close
           /\ ParseErrors[1].fed >= Len(RenderStream(inbound.descs)) + 2
    /\ (inbound.limit > Len(inbound.descs) /\ inbound.handler = "ok"
        /\ TailOf.error \in {"None", "Partial"} /\ last_op = "read_stream")
           => /\ ParseErrors = <<>>
              /\ ~need_close
              /\ \A j \in 1..Len(http_events) : http_events[j].type = "request"
    /\ (inbound.limit > Len(inbound.descs) /\ inbound.handler = "ok"
        /\ TailOf.error \notin {"None", "Partial"} /\ last_op = "read_stream"
        /\ pos >= Len(Stream) - 1)
           => Len(ParseErrors) = 1

\* a malformed request line after a delivered request was rejected
C15_Witness ==
    /\ Len(ParseErrors) = 1
    /\ Len(http_events) > 1
    /\ need_close
    /\ pos = Len(Stream)

\* the number of requests whose last byte arrived by offset f of the stream
CompleteBy(f) == Cardinality({k \in 1..Len(inbound.descs) : RequestEnd(k) <= f})

\* the number of requests delivered by the reads that ended before offset f
DeliveredBefore(f) ==
    Cardinality({j \in 1..Len(http_events) :
                    http_events[j].type = "request" /\ http_events[j].fed < f})

\* C16: PipeliningRequestsLimit is raised only by a read from which more
\* than pipelining_requests_limit requests would be parsed: a read that
\* completes at most that many requests, with or without an incomplete one
\* after them, is not rejected.
C16_LimitOnlyWhenExceeded ==
    \A j \in 1..Len(http_events) :
        http_events[j].error = "PipeliningRequestsLimit"
            => CompleteBy(http_events[j].fed) - DeliveredBefore(http_events[j].fed)
                   > inbound.limit

(***************************************************************************)
(* Part 8.  WebSocket frames: the frames a client sends, the parser fed    *)
(* with them in chunks, and the upgrade of a session from HTTP.            *)
(***************************************************************************)
\* most frames the peer sends on one connection
MaxFrames == 2

\* A frame as a client encodes it (RFC 6455 section 5.2): the payload length
\* in 7 bits, or 126 and 16 bits, or 127 and 64 bits (high is the first of
\* the eight length bytes), the masking key, the payload xor-ed with the key.
ClientFrame(fin, opcode, len_bits, high, masked, key, data) ==
    [fin |-> fin, opcode |-> opcode, len_bits |-> len_bits, high |-> high,
     masked |-> masked, key |-> key, data |-> data]

RenderFrame(f) ==
    LET bit == IF f.masked THEN 128 ELSE 0
        n == Len(f.data)
    IN
    <<(IF f.fin THEN 128 ELSE 0) + f.opcode>>
    \o (IF f.len_bits = 7 THEN <<bit + n>>
        ELSE IF f.len_bits = 16 THEN <<bit + 126, 0, n>>
        ELSE <<bit + 127, f.high, 0, 0, 0, 0, 0, 0, n>>)
    \o (IF f.masked THEN f.key ELSE <<>>)
    \o [j \in 1..n |-> IF f.masked THEN xor(f.data[j], f.key[((j - 1) % 4) + 1])
                       ELSE f.data[j]]

RECURSIVE RenderFrames(_)
RenderFrames(fs) ==
    IF fs = <<>> THEN <<>> ELSE RenderFrame(Head(fs)) \o RenderFrames(Tail(fs))

\* the frames the peer chooses from: text, a fragment without payload, the two
\* extended lengths, close, a frame without mask, a length above 2^56, and a
\* payload of three bytes
FrameKinds ==
    { ClientFrame(TRUE, 1, 7, 0, TRUE, <<211, 25, 248, 86>>, <<72, 105>>),
      ClientFrame(FALSE, 2, 7, 0, TRUE, <<1, 2, 3, 4>>, <<>>),
      ClientFrame(TRUE, 1, 16, 0, TRUE, <<6, 145, 169, 18>>, <<97>>),
      ClientFrame(TRUE, 2, 64, 0, TRUE, <<216, 213, 165, 109>>, <<255>>),
      ClientFrame(TRUE, CLOSE_OPCODE, 7, 0, TRUE, <<149, 71, 232, 208>>, <<>>),
      ClientFrame(TRUE, 1, 7, 0, FALSE, <<>>, <<49>>),
      ClientFrame(TRUE, 1, 64, 1, TRUE, <<1, 2, 3, 4>>, <<>>),
      ClientFrame(TRUE, 0, 7, 0, TRUE, <<9, 8, 7, 6>>, <<1, 2, 3>>) }

\* the websocket_payload_limit settings that are tried
PayloadLimits == {2, 200}

\* what follows the last frame: nothing, or the first byte of another frame
FrameTails == {<<>>, <<129>>}

FrameInbounds ==
    { [descs |-> <<>>, handler |-> "upgrade", body_result |-> "ok",
       tail |-> RenderFrames(fs) \o t,
       limit |-> DefaultSettings.pipelining_requests_limit, payload_limit |-> l] :
        fs \in UNION { [1..k -> FrameKinds] : k \in 1..MaxFrames },
        t \in FrameTails, l \in PayloadLimits }

\* An upgrade request, and what the application does with it: the on-request
\* handler accepts the upgrade and sets the frame callback ("upgrade"), or it
\* hands the request to another thread that does so later ("upgrade_later");
\* body_result is what the frame callback returns.
UpgradeRequest ==
    Desc(<<"G", "E", "T">>, <<"/">>, FALSE, <<>>, "Http1_1", "None",
         <<Header(<<"S", "e", "c", "-", "W", "e", "b", "S", "o", "c", "k", "e", "t",
                    "-", "K", "e", "y">>, <<"k">>, TRUE)>>, -1, <<>>)

\* the frames that follow an upgrade request: text, close and unmasked
UpgradeFrameKinds == {f \in FrameKinds : f.len_bits = 7 /\ Len(f.data) \in {0, 1, 2} /\ f.fin}

UpgradeInbounds ==
    { [descs |-> <<UpgradeRequest>>, handler |-> h, body_result |-> b,
       tail |-> RenderFrames(fs) \o t,
       limit |-> DefaultSettings.pipelining_requests_limit, payload_limit |-> l] :
        h \in {"upgrade", "upgrade_later"}, b \in {"ok", "err"},
        fs \in UNION { [1..k -> UpgradeFrameKinds] : k \in 0..MaxFrames },
        t \in FrameTails, l \in PayloadLimits }

InitUpgrade ==
    /\ Accepted([NewSession EXCEPT !.is_http_mode = TRUE])
    /\ inbound \in UpgradeInbounds
    /\ pos = 0
    /\ web = NewWebSession
    /\ content_callback = NoContentCallback
    /\ http_events = <<>>

\* The thread that was handed the request accepts the upgrade: the frame
\* callback slot of the session is set.
AcceptWebsocketLater ==
    /\ inbound.handler = "upgrade_later"
    /\ RequestCount(http_events) > 0
    /\ ~web.websocket_callback
    /\ web' = [web EXCEPT !.websocket_callback = TRUE]
    /\ last_op' = "accept_websocket"
    /\ UNCHANGED <<surpluses_to_write, need_close, need_close_after_sending,
                   is_http_mode, interest, tcp_clients, wire, submitted, close_by,
                   write_failed, stream_errors, disconnected, worker,
                   last_response, threads, inbound, pos, content_callback,
                   http_events>>

NextUpgrade ==
    \/ ReadChunk
    \/ ReadNothing
    \/ AcceptWebsocketLater

SpecUpgrade == InitUpgrade /\ [][NextUpgrade]_vars

\* The parser fed with a chunk and re-fed each surplus it returns, as the
\* tests of websocket.rs feed it: r is the result of parse_yet, log the frames
\* returned so far and the error, if any.
RECURSIVE feed_match(_, _, _, _)
feed_match(r, payload_limit, log, fed) ==
    IF r.kind = "Frame"
    THEN IF r.surplus # <<>>
         THEN feed_match(parse_frame_yet(r.parser, r.surplus, payload_limit),
                         payload_limit, Append(log, FrameEvent(r.frame, <<>>, fed)), fed)
         ELSE [parser |-> r.parser, log |-> Append(log, FrameEvent(r.frame, <<>>, fed))]
    ELSE IF r.kind = "Error"
    THEN [parser |-> r.parser,
          log |-> Append(log, Event("frame_error", NewRequest, FALSE, <<>>, 0,
                                    r.error, <<>>, fed))]
    ELSE [parser |-> r.parser, log |-> log]

feed(p, data, payload_limit, log, fed) ==
    feed_match(parse_frame_yet(p, data, payload_limit), payload_limit, log, fed)

\* a parser in its initial state and the frames the peer will send
InitFrames ==
    /\ Accepted([NewSession EXCEPT !.is_http_mode = FALSE])
    /\ inbound \in FrameInbounds
    /\ pos = 0
    /\ web = [NewWebSession EXCEPT !.state = "Websocket", !.websocket_callback = TRUE]
    /\ content_callback = NoContentCallback
    /\ http_events = <<>>

FrameFailed(events) == \E j \in 1..Len(events) : events[j].type = "frame_error"

\* the parser is given the next chunk of the stream
FeedChunk ==
    /\ ~FrameFailed(http_events)
    /\ \E n \in ChunkLens :
           LET r == feed(web.websocket_parser, SubSeq(Stream, pos + 1, pos + n),
                         inbound.payload_limit, http_events, pos + n)
           IN
           /\ web' = [web EXCEPT !.websocket_parser = r.parser]
           /\ http_events' = r.log
           /\ pos' = pos + n
    /\ last_op' = "parse_yet"
    /\ UNCHANGED <<surpluses_to_write, need_close, need_close_after_sending,
                   is_http_mode, interest, tcp_clients, wire, submitted, close_by,
                   write_failed, stream_errors, disconnected, worker,
                   last_response, threads, inbound, content_callback>>

SpecFrames == InitFrames /\ [][FeedChunk]_vars

\* the stream up to pos given to a new parser in one piece
Unsplit == feed(NewWebsocketParser, SubSeq(Stream, 1, pos), inbound.payload_limit, <<>>, 0)

\* what a log tells of the frames and the error, without the chunk they came in
Returned(log) ==
    [j \in 1..Len(log) |->
        [type |-> log[j].type, fin |-> log[j].registered,
         opcode |-> log[j].completion, payload |-> log[j].bytes,
         error |-> log[j].error]]

\* C20: whatever the division of the stream into chunks, the parser (re-fed
\* each surplus it returns) has produced the frames (fin, opcode, payload) and
\* the error, and holds the unconsumed bytes, that it produces and holds when
\* it is given the same bytes in one piece.
C20_FramesChunkIndependent ==
    /\ Returned(http_events) = Returned(Unsplit.log)
    /\ ~FrameFailed(http_events) =>
           web.websocket_parser.frame.buf = Unsplit.parser.frame.buf

\* two frames were returned from a stream that was given in several chunks,
\* one of them with the 64-bit length, and a byte of a third frame is held
C20_Witness ==
    /\ Len(http_events) = 2
    /\ http_events[1].bytes = <<72, 105>>
    /\ http_events[2].bytes = <<255>>
    /\ http_events[2].completion = 2
    /\ http_events[1].fed < http_events[2].fed
    /\ http_events[2].fed < Len(Stream)
    /\ web.websocket_parser.frame.buf = <<129>>
    /\ pos = Len(Stream)
    /\ last_op = "parse_yet"

\* the frames and frame errors handed to the frame callback, in order
FrameLog == SelectSeq(http_events, LAMBDA e : e.type \in {"frame", "frame_error"})

\* the bytes read after the head of the upgrade request, given to a new frame
\* parser in one piece
AfterUpgrade ==
    feed(NewWebsocketParser, SubSeq(Stream, HeadEnd(1) + 1, pos),
         inbound.payload_limit, <<>>, 0)

\* C17: once the on-request handler has accepted the upgrade, the bytes
\* after the head of the upgrade request, those of the same read included,
\* go to the frame parser and none to the HTTP parser, and the on-request
\* callback is not invoked again.
C17_BytesAfterUpgradeAreFrames ==
    (inbound.handler = "upgrade" /\ pos >= HeadEnd(1) /\ last_op = "read_stream") =>
        /\ RequestCount(http_events) = 1
        /\ http_events[1].type = "request"
        /\ \A j \in 1..Len(http_events) : http_events[j].type # "error"
        /\ web.request_parser.request.raw = <<>>
        /\ ~is_http_mode
        /\ IsPrefix(Returned(FrameLog), Returned(AfterUpgrade.log))
        /\ ~need_close =>
               /\ Returned(FrameLog) = Returned(AfterUpgrade.log)
               /\ pos > HeadEnd(1) =>
                      web.websocket_parser.frame.buf = AfterUpgrade.parser.frame.buf

\* the read that brought the end of the upgrade request also brought a whole
\* frame, which the frame callback received
C17_Witness ==
    /\ inbound.handler = "upgrade"
    /\ Len(http_events) >= 2
    /\ http_events[2].type = "frame"
    /\ http_events[2].bytes = <<72, 105>>
    /\ http_events[2].fed = http_events[1].fed
    /\ ~need_close

\* C18: a stream error goes to the on-request callback only while the
\* protocol machine of the session is in the HTTP phase, and to the frame
\* callback only when the upgrade has been accepted; the session is then
\* close-requested.
C18_ErrorToCallbackOfPhase ==
    \A j \in 1..Len(stream_errors) :
        /\ stream_errors[j] = "http" => web.state = "Http"
        /\ stream_errors[j] = "websocket" => web.websocket_callback
        /\ need_close

\* the connections on which a callback returns an error: the on-request
\* handler, the body callback, or the frame callback after an upgrade
ErrInbounds ==
    {i \in Inbounds : i.handler = "err" \/ (i.handler = "read_content" /\ i.body_result = "err")}
    \cup {u \in UpgradeInbounds : u.handler = "upgrade" /\ u.body_result = "err"}

InitErr ==
    /\ Accepted([NewSession EXCEPT !.is_http_mode = TRUE])
    /\ inbound \in ErrInbounds
    /\ pos = 0
    /\ web = NewWebSession
    /\ content_callback = NoContentCallback
    /\ http_events = <<>>

SpecErr == InitErr /\ [][NextWeb]_vars

\* the callback invocation at index j of the log returned an error
ReturnedErr(j) ==
    \/ http_events[j].type = "request" /\ inbound.handler = "err"
    \/ http_events[j].type \in {"content", "frame"} /\ inbound.body_result = "err"

\* C19: when the on-request, body-chunk or frame callback returns an error
\* the session is close-requested and no callback is invoked after it.
C19_ErrorReturnStopsCallbacks ==
    \A j \in 1..Len(http_events) :
        ReturnedErr(j) => (need_close /\ j = Len(http_events))

\* the frame callback returned an error for a frame that more bytes of the
\* same read followed
C19_Witness ==
    /\ http_events # <<>>
    /\ http_events[Len(http_events)].type = "frame"
    /\ http_events[Len(http_events)].surplus # <<>>
    /\ inbound.body_result = "err"
    /\ need_close
(***************************************************************************)
(* Part 9.  A session in the WebSocket phase: the worker reads the frames  *)
(* of the peer in chunks, the session parses them and hands each to the    *)
(* frame callback.                                                          *)
(***************************************************************************)
\* the frames the peer chooses from: with and without mask, of every length
\* form, each form with a length inside and outside the small payload limit
SocketFrameKinds ==
    { ClientFrame(TRUE, 1, 7, 0, TRUE, <<211, 25, 248, 86>>, <<72, 105>>),
      ClientFrame(TRUE, 2, 7, 0, TRUE, <<9, 8, 7, 6>>, <<1, 2, 3>>),
      ClientFrame(TRUE, CLOSE_OPCODE, 7, 0, TRUE, <<149, 71, 232, 208>>, <<>>),
      ClientFrame(TRUE, 1, 16, 0, TRUE, <<6, 145, 169, 18>>, <<97, 98>>),
      ClientFrame(FALSE, 0, 64, 0, TRUE, <<216, 213, 165, 109>>, <<255>>),
      ClientFrame(TRUE, 2, 64, 1, TRUE, <<1, 2, 3, 4>>, <<>>),
      ClientFrame(TRUE, 1, 7, 0, FALSE, <<>>, <<49>>),
      ClientFrame(TRUE, CLOSE_OPCODE, 7, 0, FALSE, <<>>, <<>>),
      ClientFrame(TRUE, 2, 16, 0, FALSE, <<>>, <<97>>),
      ClientFrame(FALSE, 0, 64, 1, FALSE, <<>>, <<>>) }

\* frames: the frames the peer sends, whose bytes are the tail
SocketInbounds ==
    { [descs |-> <<>>, handler |-> "upgrade", body_result |-> b,
       tail |-> RenderFrames(fs), frames |-> fs,
       limit |-> DefaultSettings.pipelining_requests_limit, payload_limit |-> l] :
        fs \in UNION { [1..k -> SocketFrameKinds] : k \in 1..MaxFrames },
        b \in {"ok", "err"}, l \in PayloadLimits }

\* a session whose upgrade was accepted: the frame callback is set and the
\* protocol machine holds a new frame parser
InitSocket ==
    /\ Accepted([NewSession EXCEPT !.is_http_mode = FALSE])
    /\ inbound \in SocketInbounds
    /\ pos = 0
    /\ web = [NewWebSession EXCEPT !.state = "Websocket", !.websocket_callback = TRUE]
    /\ content_callback = NoContentCallback
    /\ http_events = <<>>

SpecSocket == InitSocket /\ [][NextWeb]_vars

\* where frame k of the peer starts in the stream
FrameStart(k) == Len(RenderFrames(SubSeq(inbound.frames, 1, k - 1)))

\* the frames handed to the frame callback, in order
Delivered == SelectSeq(http_events, LAMBDA e : e.type = "frame")

\* the frame callback has received the frames before frame k, none of them a
\* close frame, and has returned Ok for each
DeliveredBefore_k(k) ==
    /\ Len(Delivered) = k - 1
    /\ inbound.body_result = "ok"
    /\ \A j \in 1..(k - 1) : Delivered[j].completion # CLOSE_OPCODE

\* C21: once the second byte of a frame without mask has been read, the
\* session is close-requested and the frame was not handed to the frame
\* callback; when the frames before it were all delivered, the callback has
\* received UnmaskedClientMaessage as its last call, whatever the opcode and
\* the length form of the frame.
C21_UnmaskedRejected ==
    \A k \in 1..Len(inbound.frames) :
        (~inbound.frames[k].masked /\ pos >= FrameStart(k) + 2) =>
            /\ need_close
            /\ Len(Delivered) < k
            /\ DeliveredBefore_k(k) =>
                   /\ Len(http_events) = k
                   /\ http_events[k].type = "frame_error"
                   /\ http_events[k].error = "UnmaskedClientMaessage"

\* a frame was delivered, then the second byte of a fragment without mask in
\* the 64-bit length form was read, before the rest of that frame: the
\* callback received the error and the session is close-requested
C21_Witness ==
    /\ Len(inbound.frames) = 2
    /\ inbound.frames[2] = ClientFrame(FALSE, 0, 64, 1, FALSE, <<>>, <<>>)
    /\ pos = FrameStart(2) + 2
    /\ Len(http_events) = 2
    /\ http_events[1].type = "frame"
    /\ http_events[2].error = "UnmaskedClientMaessage"
    /\ need_close

\* the number of bytes of a frame up to the end of its length field
LenFieldEnd(f) == IF f.len_bits = 7 THEN 2 ELSE IF f.len_bits = 16 THEN 4 ELSE 10

\* the payload length a frame declares exceeds the limit (a frame whose first
\* length byte of eight is not zero declares 2^56 bytes or more)
DeclaredExceeds(f, payload_limit) ==
    (f.len_bits = 64 /\ f.high # 0) \/ Len(f.data) > payload_limit

\* C22: for a masked frame that follows delivered frames, once its length
\* field has been read a declared length above websocket_payload_limit has
\* brought PayloadLimit to the frame callback and closed the session; a
\* declared length up to the limit brings no error, and the frame is
\* delivered once its last byte has been read.
C22_PayloadLimitExact ==
    \A k \in 1..Len(inbound.frames) :
        LET f == inbound.frames[k] IN
        (f.masked /\ inbound.body_result = "ok"
                  /\ \A j \in 1..(k - 1) :
                         /\ j <= Len(http_events)
                         /\ http_events[j].type = "frame"
                         /\ http_events[j].completion # CLOSE_OPCODE) =>
            IF DeclaredExceeds(f, inbound.payload_limit)
            THEN pos >= FrameStart(k) + LenFieldEnd(f) =>
                     /\ Len(http_events) = k
                     /\ http_events[k].error = "PayloadLimit"
                     /\ need_close
            ELSE /\ Len(http_events) >= k => http_events[k].type = "frame"
                 /\ pos >= FrameStart(k + 1) => Len(http_events) >= k

\* C25: a close frame (opcode 0x8) that the parser returns is handed to the
\* frame callback and the session is then close-requested, whether the
\* callback returns Ok or Err; it is the last call of the callback, and the
\* bytes that followed it in the read are neither parsed nor kept.
C25_CloseFrameCloses ==
    /\ \A j \in 1..Len(http_events) :
           (http_events[j].type = "frame" /\ http_events[j].completion = CLOSE_OPCODE) =>
               /\ need_close
               /\ j = Len(http_events)
               /\ web.websocket_parser = NewWebsocketParser
    /\ \A k \in 1..Len(inbound.frames) :
           (/\ inbound.frames[k].masked
            /\ inbound.frames[k].opcode = CLOSE_OPCODE
            /\ pos >= FrameStart(k + 1)
            /\ Len(Delivered) >= k - 1
            /\ k > 1 => inbound.body_result = "ok"
            /\ \A j \in 1..(k - 1) : Delivered[j].completion # CLOSE_OPCODE) =>
               /\ Len(Delivered) = k
               /\ Delivered[k].completion = CLOSE_OPCODE
               /\ need_close

\* a close frame came in one read with the whole frame that follows it; the
\* callback returned Ok, and the frame that follows was not delivered
C25_Witness ==
    /\ Len(inbound.frames) = 2
    /\ inbound.body_result = "ok"
    /\ Len(http_events) = 1
    /\ http_events[1].type = "frame"
    /\ http_events[1].completion = CLOSE_OPCODE
    /\ http_events[1].surplus = RenderFrame(inbound.frames[2])
    /\ inbound.frames[2].masked
    /\ inbound.frames[2].opcode = 1
    /\ pos = Len(Stream)
    /\ need_close

(***************************************************************************)
(* Part 10.  The handshake (request.rs): the application accepts the       *)
(* upgrade of a request that the on-request callback handed to it.         *)
(***************************************************************************)
SecWebSocketKey ==
    <<"S", "e", "c", "-", "W", "e", "b", "S", "o", "c", "k", "e", "t", "-",
      "K", "e", "y">>

SecWebSocketProtocol ==
    <<"S", "e", "c", "-", "W", "e", "b", "S", "o", "c", "k", "e", "t", "-",
      "P", "r", "o", "t", "o", "c", "o", "l">>

\* RequestData::header_value: the value of the first header whose name is
\* byte for byte the given name
header_value(request, name) ==
    LET found == {i \in 1..Len(request.headers) : request.headers[i].name = name} IN
    IF found = {} THEN [some |-> FALSE, value |-> <<>>]
    ELSE [some |-> TRUE,
          value |-> request.headers[CHOOSE i \in found : \A j \in found : i <= j].value]

\* websocket::accept_key: base64 of the SHA-1 of the key followed by the
\* GUID of RFC 6455, written here as the application of these functions
accept_key(key) ==
    <<"base64(sha1(">> \o key \o <<"258EAFA5-E914-47DA-95CA-C5AB0DC85B11", "))">>

\* the handshake response of accept_websocket_and_send_extra_frames without
\* extra frames; the date is the text of the worker's clock
handshake_response(request) ==
    <<"H", "T", "T", "P", "/", "1", ".", "1", SP, "1", "0", "1", SP, "S",
      "w", "i", "t", "c", "h", "i", "n", "g", SP, "P", "r", "o", "t", "o",
      "c", "o", "l", "s", CR, LF, "U", "p", "g", "r", "a", "d", "e", ":",
      SP, "w", "e", "b", "s", "o", "c", "k", "e", "t", CR, LF, "C", "o",
      "n", "n", "e", "c", "t", "i", "o", "n", ":", SP, "U", "p", "g", "r",
      "a", "d", "e", CR, LF, "S", "e", "c", "-", "W", "e", "b", "S", "o",
      "c", "k", "e", "t", "-", "A", "c", "c", "e", "p", "t", ":", SP>>
    \o accept_key(header_value(request, SecWebSocketKey).value) \o <<CR, LF>>
    \o (IF header_value(request, SecWebSocketProtocol).some
        THEN SecWebSocketProtocol \o <<":", SP>>
                 \o header_value(request, SecWebSocketProtocol).value \o <<CR, LF>>
        ELSE <<>>)
    \o <<"D", "a", "t", "e", ":", SP, "rfc7231_date_string">> \o <<CR, LF, CR, LF>>

\* an accept that answers whether or not the request has the key
accept_websocket_always(r, request) ==
    {[session |-> s, result |-> "Ok"] : s \in send(r, handshake_response(request))}

\* Request::accept_websocket: Err(NoSecWebSocketKeyHeader) before anything is
\* sent, or the response is sent and the Websocket handle returned
accept_websocket(r, request) ==
    IF ~header_value(request, SecWebSocketKey).some
    THEN {[session |-> r, result |-> "Err"]}
    ELSE {[session |-> s, result |-> "Ok"] : s \in send(r, handshake_response(request))}

\* the upgrade requests the peer chooses from: with the key, with the key and
\* a protocol, without the key, and with the name of the key in lower case
HandshakeRequests ==
    { Desc(<<"G", "E", "T">>, <<"/">>, FALSE, <<>>, "Http1_1", "None", hs, -1, <<>>) :
        hs \in { <<Header(SecWebSocketKey, <<"k">>, TRUE)>>,
                 <<Header(SecWebSocketProtocol, <<"p">>, TRUE),
                   Header(SecWebSocketKey, <<"k">>, FALSE)>>,
                 <<>>,
                 <<Header(SecWebSocketProtocol, <<"p">>, TRUE)>>,
                 <<Header(<<"s", "e", "c", "-", "w", "e", "b", "s", "o", "c", "k",
                            "e", "t", "-", "k", "e", "y">>, <<"k">>, TRUE)>> } }

HandshakeInbounds ==
    { [descs |-> <<d>>, handler |-> "upgrade_later", body_result |-> "ok",
       tail |-> RenderFrames(fs),
       limit |-> DefaultSettings.pipelining_requests_limit, payload_limit |-> l] :
        d \in HandshakeRequests,
        fs \in UNION { [1..k -> UpgradeFrameKinds] : k \in 0..1 },
        l \in PayloadLimits }

InitHandshake ==
    /\ Accepted([NewSession EXCEPT !.is_http_mode = TRUE])
    /\ inbound \in HandshakeInbounds
    /\ pos = 0
    /\ web = NewWebSession
    /\ content_callback = NoContentCallback
    /\ http_events = <<>>

\* the request that the on-request callback received last
HandedRequest ==
    LET js == {j \in 1..Len(http_events) : http_events[j].type = "request"} IN
    http_events[CHOOSE j \in js : \A i \in js : i <= j].request

\* The application calls accept_websocket on the request it was handed and,
\* when it gets the Websocket handle, sets the frame callback with on_frame.
AcceptWebsocket ==
    /\ tcp_clients
    /\ RequestCount(http_events) > 0
    /\ ~web.websocket_callback
    /\ \E a \in accept_websocket(Session, HandedRequest) :
           /\ Commit(a.session)
           /\ web' = [web EXCEPT !.websocket_callback = (a.result = "Ok")]
           /\ last_op' = IF a.result = "Ok" THEN "accept_websocket"
                         ELSE "accept_websocket_err"
    /\ UNCHANGED <<tcp_clients, disconnected, worker, last_response, threads,
                   inbound, pos, content_callback, http_events>>

NextHandshake ==
    \/ ReadChunk
    \/ ReadNothing
    \/ AcceptWebsocket

SpecHandshake == InitHandshake /\ [][NextHandshake]_vars

\* the upgrade request, as the peer wrote it, has a Sec-WebSocket-Key header
PeerSentKey ==
    \E i \in 1..Len(inbound.descs[1].extra) :
        inbound.descs[1].extra[i].name = SecWebSocketKey

\* C26: a call of accept_websocket on a request without Sec-WebSocket-Key
\* header returns the error, and the step changes nothing of the session:
\* no byte is submitted, queued or written, the session stays in the HTTP
\* phase with its on-request callback, no frame callback is set, and it is
\* not marked for close.
C26_NoKeyNoUpgrade ==
    [][(last_op' \in {"accept_websocket", "accept_websocket_err"} /\ ~PeerSentKey) =>
           /\ last_op' = "accept_websocket_err"
           /\ submitted' = submitted
           /\ wire' = wire
           /\ surpluses_to_write' = surpluses_to_write
           /\ interest' = interest
           /\ is_http_mode' /\ is_http_mode
           /\ web' = web
           /\ web.state = "Http"
           /\ ~web'.websocket_callback
           /\ need_close' = need_close
           /\ need_close_after_sending' = need_close_after_sending
           /\ tcp_clients']_vars

\* accept_websocket has returned the error for a request whose key header is
\* written in lower case; nothing was submitted and the session is in the
\* HTTP phase
C26_Witness ==
    /\ last_op = "accept_websocket_err"
    /\ Len(inbound.descs[1].extra) = 1
    /\ RequestCount(http_events) = 1
    /\ submitted = <<>>
    /\ is_http_mode
    /\ web.state = "Http"
    /\ ~web.websocket_callback
    /\ ~need_close

(***************************************************************************)
(* Part 11.  The worker threads of a process (server.rs, worker.rs,        *)
(* redirect_server.rs).  Every worker polls a clone of the listener; the   *)
(* workers that Server::run spawns are given one shared connection         *)
(* counter, a worker made by Worker::new_from_listener alone (as           *)
(* run_redirect_server makes them) keeps the counter it was built with.    *)
(* In this part the variable worker holds the whole process: pool (each    *)
(* worker's position and the id it fetched), counters, ids (the ids handed *)
(* to TcpSession::new, in order), need_stop (the stopper) and pending (the *)
(* connections waiting in the listener's accept queue).                    *)
(***************************************************************************)
\* most worker threads of the process
MaxWorkers == 2

\* most connections the peers open
MaxConnections == 3

Workers == 1..MaxWorkers

\* the name of the counter of Server::run, shared by the workers it spawns
\* (a worker's own counter is named by the worker)
ServerCounter == MaxWorkers + 1

\* a worker before Worker::run: counter is the connections_counter it uses,
\* its own (named by the worker) or the one Server::run gave it
NewWorker(counter) == [pc |-> "top", counter |-> counter, id |-> 0, cycles_after_stop |-> 0]

\* The process has spawned its workers: each was spawned by Server::run or
\* was made alone.
InitProcess ==
    /\ SessionIs(NewSession)
    /\ tcp_clients = FALSE
    /\ inbound = NoInbound
    /\ pos = 0
    /\ web = NewWebSession
    /\ content_callback = NoContentCallback
    /\ http_events = <<>>
    /\ \E of_server \in SUBSET Workers :
           worker = [pool |-> [w \in Workers |->
                                  NewWorker(IF w \in of_server THEN ServerCounter ELSE w)],
                     counters |-> [c \in {ServerCounter} \cup Workers |-> 0],
                     ids |-> <<>>, need_stop |-> FALSE, pending |-> 0, connected |-> 0]

\* a step of the process: nothing of the session of the other parts changes
SetProcess(next) ==
    /\ worker' = next
    /\ UNCHANGED <<surpluses_to_write, need_close, need_close_after_sending,
                   is_http_mode, interest, tcp_clients, wire, submitted, close_by,
                   write_failed, stream_errors, disconnected, last_op,
                   last_response, others>>

\* a peer connects: the connection waits in the accept queue
PeerConnects ==
    /\ worker.connected < MaxConnections
    /\ SetProcess([worker EXCEPT !.pending = @ + 1, !.connected = @ + 1])

\* Stopper::stop
Stop ==
    /\ ~worker.need_stop
    /\ SetProcess([worker EXCEPT !.need_stop = TRUE])

\* Worker::run, the top of the loop: break when the stopper is set, else poll
run_top(w) == IF worker.need_stop THEN "exited" ELSE "poll"

RunTop(w) ==
    /\ worker.pool[w].pc = "top"
    /\ SetProcess([worker EXCEPT !.pool[w].pc = run_top(w),
                                 !.pool[w].cycles_after_stop =
                                     IF worker.need_stop /\ run_top(w) = "poll"
                                     THEN @ + 1 ELSE @])

\* Worker::poll: mio_poll.poll with the timeout None returns when an event is
\* ready; the listener is registered level-triggered in every worker
PollReturns(w) ==
    /\ worker.pool[w].pc = "poll"
    /\ worker.pending > 0
    /\ SetProcess([worker EXCEPT !.pool[w].pc = "events"])

\* process_mio_events, LISTENER_TOKEN: tcp_listener.accept() returns a
\* connection, or WouldBlock ends the cycle
ListenerAccept(w) ==
    /\ worker.pool[w].pc = "events"
    /\ SetProcess(IF worker.pending > 0
                  THEN [worker EXCEPT !.pending = @ - 1, !.pool[w].pc = "accepted"]
                  ELSE [worker EXCEPT !.pool[w].pc = "top"])

\* connections_counter.fetch_add(1, SeqCst)
FetchAdd(w) ==
    /\ worker.pool[w].pc = "accepted"
    /\ SetProcess([worker EXCEPT
                      !.pool[w].id = worker.counters[worker.pool[w].counter],
                      !.counters[worker.pool[w].counter] = @ + 1,
                      !.pool[w].pc = "fetched"])

\* TcpSession::new(client_id, ...) and event_callback(Event::Connected)
NewTcpSession(w) ==
    /\ worker.pool[w].pc = "fetched"
    /\ SetProcess([worker EXCEPT
                      !.ids = Append(@, [worker |-> w, id |-> worker.pool[w].id]),
                      !.pool[w].pc = "events"])

NextProcess ==
    \/ PeerConnects
    \/ Stop
    \/ \E w \in Workers : RunTop(w)
    \/ \E w \in Workers : PollReturns(w)
    \/ \E w \in Workers : ListenerAccept(w)
    \/ \E w \in Workers : FetchAdd(w)
    \/ \E w \in Workers : NewTcpSession(w)

SpecProcess == InitProcess /\ [][NextProcess]_vars

\* C27: the ids given to the sessions of a process are pairwise distinct,
\* whichever worker accepted them, and each id is greater than the ids
\* given before it by the same worker.
C27_IdsDistinctAndIncreasing ==
    \A i, j \in 1..Len(worker.ids) :
        /\ i # j => worker.ids[i].id # worker.ids[j].id
        /\ (i < j /\ worker.ids[i].worker = worker.ids[j].worker) =>
               worker.ids[i].id < worker.ids[j].id

\* the steps of worker w; a worker thread that can take a step takes it
WorkerStep(w) ==
    RunTop(w) \/ PollReturns(w) \/ ListenerAccept(w) \/ FetchAdd(w) \/ NewTcpSession(w)

\* The threads are scheduled fairly; nothing makes a peer connect.
SpecProcessFair == SpecProcess /\ \A w \in Workers : WF_vars(WorkerStep(w))

\* C28: a worker enters no poll cycle with the stopper set, and once the
\* stopper is set every worker leaves its run loop.
C28_StopperEndsWorkers ==
    /\ [](\A w \in Workers : worker.pool[w].cycles_after_stop = 0)
    /\ worker.need_stop ~> (\A w \in Workers : worker.pool[w].pc = "exited")

(***************************************************************************)
(* Part 12.  The frame serializer (websocket.rs, frame) and the parser on  *)
(* one client frame: the inputs are drawn at the start, the actions apply  *)
(* the functions.  In this part inbound holds the inputs (opcode, len and  *)
(* seed of the payload, key, payload_limit), http_events what the parser   *)
(* returned and submitted the bytes that frame made.                       *)
(***************************************************************************)
U16_MAX == 65535

\* the opcodes of a frame: the four low bits of the first byte
Opcodes == 0..15

\* opcode | 0b1000_0000 on u8
or_fin(opcode) == IF (opcode \div 128) % 2 = 1 THEN opcode ELSE opcode + 128

\* (data_len as u64).to_be_bytes(), for a length below 2^31
to_be_bytes(data_len) ==
    <<0, 0, 0, 0, (data_len \div 16777216) % 256, (data_len \div 65536) % 256,
      (data_len \div 256) % 256, data_len % 256>>

\* a frame that writes every length below 65536 in the 16-bit form
frame_wide(opcode, payload_) ==
    <<or_fin(opcode)>>
    \o (IF Len(payload_) <= U16_MAX
        THEN <<126, to_be_bytes(Len(payload_))[7], to_be_bytes(Len(payload_))[8]>>
        ELSE <<127>> \o to_be_bytes(Len(payload_)))
    \o payload_

\* websocket::frame
frame(opcode, payload_) ==
    <<or_fin(opcode)>>
    \o (IF Len(payload_) < 126 THEN <<Len(payload_)>>
        ELSE IF Len(payload_) <= U16_MAX
        THEN <<126, to_be_bytes(Len(payload_))[7], to_be_bytes(Len(payload_))[8]>>
        ELSE <<127>> \o to_be_bytes(Len(payload_)))
    \o payload_

\* the payload of len bytes that starts at seed
PayloadOf(len, seed) == [j \in 1..len |-> (seed + 7 * j) % 256]

\* the lengths that are tried: around each change of the length form
PayloadLens == {0, 1, 2, 3, 5, 125, 126, 127, 255, U16_MAX, U16_MAX + 1}

CodecInputs ==
    UNION {
        { [descs |-> <<>>, handler |-> "ok", body_result |-> "ok", tail |-> <<>>,
           limit |-> DefaultSettings.pipelining_requests_limit,
           opcode |-> o, len |-> n, seed |-> sd, key |-> k, payload_limit |-> l] :
            o \in Opcodes, sd \in {0, 250},
            k \in {<<0, 0, 0, 0>>, <<211, 25, 248, 86>>},
            l \in {n, WEBSOCKET_PAYLOAD_LIMIT} } : n \in PayloadLens }

InitCodec ==
    /\ SessionIs(NewSession)
    /\ tcp_clients = FALSE
    /\ worker = WorkerThread("done", <<>>, FALSE)
    /\ inbound \in CodecInputs
    /\ pos = 0
    /\ web = NewWebSession
    /\ content_callback = NoContentCallback
    /\ http_events = <<>>

\* the frame as a client encodes it, in the shortest length form
ClientEncoding ==
    RenderFrame(ClientFrame(TRUE, inbound.opcode,
                            IF inbound.len < 126 THEN 7 ELSE 16, 0, TRUE,
                            inbound.key, PayloadOf(inbound.len, inbound.seed)))

\* a new parser is given the client encoding of the inputs
ParseClientFrame ==
    /\ http_events = <<>>
    /\ inbound.len < 256
    /\ http_events' = feed(NewWebsocketParser, ClientEncoding, inbound.payload_limit,
                           <<>>, Len(ClientEncoding)).log
    /\ last_op' = "parse_yet"
    /\ UNCHANGED <<surpluses_to_write, need_close, need_close_after_sending,
                   is_http_mode, interest, tcp_clients, wire, submitted, close_by,
                   write_failed, stream_errors, disconnected, worker,
                   last_response, threads, inbound, pos, web, content_callback>>

\* frame is applied to the inputs
MakeFrame ==
    /\ submitted = <<>>
    /\ submitted' = frame(inbound.opcode, PayloadOf(inbound.len, inbound.seed))
    /\ last_op' = "frame"
    /\ UNCHANGED <<surpluses_to_write, need_close, need_close_after_sending,
                   is_http_mode, interest, tcp_clients, wire, close_by,
                   write_failed, stream_errors, disconnected, worker,
                   last_response, others>>

\* frame is applied to the opcode and payload of the frame the parser
\* returned, as an echo server does
EchoFrame ==
    /\ submitted = <<>>
    /\ http_events # <<>>
    /\ http_events[1].type = "frame"
    /\ submitted' = frame(http_events[1].completion, http_events[1].bytes)
    /\ last_op' = "echo"
    /\ UNCHANGED <<surpluses_to_write, need_close, need_close_after_sending,
                   is_http_mode, interest, tcp_clients, wire, close_by,
                   write_failed, stream_errors, disconnected, worker,
                   last_response, others>>

NextCodec ==
    \/ ParseClientFrame
    \/ MakeFrame
    \/ EchoFrame

SpecCodec == InitCodec /\ [][NextCodec]_vars

\* the last n elements of a sequence
Suffix(seq, n) == SubSeq(seq, Len(seq) - n + 1, Len(seq))

\* C23: the parser given the masked client encoding of (opcode, payload),
\* for a payload up to the limit, returns one frame with that opcode and
\* that payload and no surplus; frame applied to what the parser returned
\* carries that payload after its header.
C23_RoundTrip ==
    /\ http_events # <<>> =>
           /\ Len(http_events) = 1
           /\ http_events[1].type = "frame"
           /\ http_events[1].completion = inbound.opcode
           /\ http_events[1].bytes = PayloadOf(inbound.len, inbound.seed)
           /\ http_events[1].registered
    /\ last_op = "echo" =>
           /\ Suffix(submitted, inbound.len) = PayloadOf(inbound.len, inbound.seed)
           /\ submitted[1] % 16 = inbound.opcode

\* a payload of 255 bytes masked with a key that is not zero was parsed with
\* the limit at 255 and given back to frame
C23_Witness ==
    /\ last_op = "echo"
    /\ inbound.len = 255
    /\ inbound.payload_limit = 255
    /\ inbound.key = <<211, 25, 248, 86>>
    /\ inbound.opcode = 2
    /\ Len(submitted) = 259

\* C24: frame(opcode, payload) is a first byte with FIN set and the opcode
\* in its low four bits, a second byte without mask bit, the length in the
\* shortest form (7 bits below 126, 126 and two bytes up to 65535, 127 and
\* eight bytes above, most significant byte first), and then the payload.
C24_FrameMinimalEncoding ==
    last_op = "frame" =>
        LET n == inbound.len
            head == Len(submitted) - n
        IN
        /\ submitted[1] = 128 + inbound.opcode
        /\ submitted[2] < 128
        /\ n < 126 => (head = 2 /\ submitted[2] = n)
        /\ (n >= 126 /\ n <= U16_MAX) =>
               (head = 4 /\ submitted[2] = 126
                         /\ submitted[3] * 256 + submitted[4] = n)
        /\ n > U16_MAX =>
               (head = 10 /\ submitted[2] = 127
                          /\ \A i \in 3..6 : submitted[i] = 0
                          /\ ((submitted[7] * 256 + submitted[8]) * 256
                                  + submitted[9]) * 256 + submitted[10] = n)
        /\ Suffix(submitted, n) = PayloadOf(n, inbound.seed)

\* frame was applied to a payload of 65536 bytes
C24_Witness ==
    /\ last_op = "frame"
    /\ inbound.len = U16_MAX + 1
    /\ inbound.opcode = CLOSE_OPCODE
    /\ Len(submitted) = U16_MAX + 11

(***************************************************************************)
(* Part 13.  The request parser alone (request_parser.rs).  It is given    *)
(* requests whose fields are as long as the limits of the settings or a    *)
(* few bytes longer, and short byte sequences that are not requests, in    *)
(* reads of every length.                                                  *)
(***************************************************************************)
\* settings with small limits, no two of them equal for fields of one kind
LimitSettings(l) ==
    [method_len_limit |-> l, path_len_limit |-> l + 1, query_len_limit |-> l + 2,
     headers_count_limit |-> l, header_name_len_limit |-> l + 1,
     header_value_len_limit |-> l + 2,
     pipelining_requests_limit |-> DefaultSettings.pipelining_requests_limit]

\* n times the byte c
Fill(c, n) == [j \in 1..n |-> c]

\* k times the line
Lines(line, k) == [j \in 1..(k * Len(line)) |-> line[((j - 1) % Len(line)) + 1]]

\* one header line of a request of shape s: the name, ':', the value with
\* its optional space, "\r\n"; value counts the space
HeaderLine(s) ==
    Fill("n", s.name) \o <<":">>
    \o (IF s.space THEN <<SP>> ELSE <<>>) \o Fill("v", s.value - (IF s.space THEN 1 ELSE 0))
    \o <<CR, LF>>

\* the bytes of a request of shape s: method, path and query (-1: none) of
\* the given lengths and headers equal header lines
RenderShape(s) ==
    Fill("M", s.method) \o <<SP, "/">> \o Fill("p", s.path - 1)
    \o (IF s.query >= 0 THEN <<"?">> \o Fill("q", s.query) ELSE <<>>)
    \o <<SP, "H", "T", "T", "P", "/", "1", ".", "1", CR, LF>>
    \o Lines(HeaderLine(s), s.headers)
    \o <<CR, LF>>

\* how many bytes a field is longer than its limit
Over == 0..3

\* the request for the settings st whose fields are over their limits by
\* xm, xp, xq (-1: no query), xn and xv bytes, with h headers
Shape(st, xm, xp, xq, h, xn, sp, xv) ==
    [method |-> st.method_len_limit + xm, path |-> st.path_len_limit + xp,
     query |-> IF xq < 0 THEN xq ELSE st.query_len_limit + xq,
     headers |-> h, name |-> st.header_name_len_limit + xn, space |-> sp,
     value |-> st.header_value_len_limit + xv]

\* the requests for the settings st: without headers, every field of the
\* request line at its limit or over it; with a request line within the
\* limits, up to one header too many, name and value at the limit or over it
Shapes(st) ==
    { Shape(st, xm, xp, xq, 0, 0, TRUE, 0) :
        xm \in Over, xp \in Over, xq \in {-1} \cup Over }
    \cup
    { Shape(st, 0, 0, xq, h, xn, sp, xv) :
        xq \in {-1, 0}, h \in 1..(st.headers_count_limit + 1), xn \in Over,
        sp \in BOOLEAN, xv \in Over }

\* a request with its fields at the limits or over them, and the settings
ShapeInputs ==
    UNION {
        { [descs |-> <<>>, handler |-> "ok", body_result |-> "ok",
           tail |-> RenderShape(s), limit |-> DefaultSettings.pipelining_requests_limit,
           payload_limit |-> WEBSOCKET_PAYLOAD_LIMIT, kind |-> "request",
           settings |-> LimitSettings(l), shape |-> s] :
            s \in Shapes(LimitSettings(l)) } :
        l \in 1..MaxLimit }

\* bytes that decide where the parser goes
RawAlphabet == {"a", SP, CR, LF, ":"}

\* what comes before the raw bytes: nothing, a request line up to its
\* query or up to its version, or a whole request line
RawPrefixes ==
    { <<>>, <<"G", "E", "T", SP, "/", "?">>, <<"G", "E", "T", SP, "/", SP>>,
      <<"G", "E", "T", SP, "/", SP, "H", "T", "T", "P", "/", "1", ".", "1", CR, LF>> }

\* every sequence of up to MaxBytes bytes of the alphabet after a prefix
RawInputs ==
    { [descs |-> <<>>, handler |-> "ok", body_result |-> "ok",
       tail |-> pre \o raw, limit |-> DefaultSettings.pipelining_requests_limit,
       payload_limit |-> WEBSOCKET_PAYLOAD_LIMIT, kind |-> "raw",
       settings |-> DefaultSettings, shape |-> <<>>] :
        pre \in RawPrefixes,
        raw \in UNION { [1..k -> RawAlphabet] : k \in 1..MaxBytes } }

\* Content-Length values a peer may send; overflow: the number does not fit
\* usize (64 bits)
LengthValues ==
    { [text |-> <<"5">>, overflow |-> FALSE],
      [text |-> <<"0">>, overflow |-> FALSE],
      [text |-> <<"0", "5">>, overflow |-> FALSE],
      [text |-> <<"1", "2">>, overflow |-> FALSE],
      [text |-> <<"2", "1", "4", "7", "4", "8", "3", "6", "4", "7">>, overflow |-> FALSE],
      [text |-> <<"+", "5">>, overflow |-> FALSE],
      [text |-> <<"+", "0">>, overflow |-> FALSE],
      [text |-> <<"-", "1">>, overflow |-> FALSE],
      [text |-> <<"-", "0">>, overflow |-> FALSE],
      [text |-> <<SP, "5">>, overflow |-> FALSE],
      [text |-> <<"5", SP>>, overflow |-> FALSE],
      [text |-> <<"5", "a">>, overflow |-> FALSE],
      [text |-> <<"a">>, overflow |-> FALSE],
      [text |-> <<"+">>, overflow |-> FALSE],
      [text |-> <<"+", "+", "5">>, overflow |-> FALSE],
      [text |-> <<"0", "x", "5">>, overflow |-> FALSE],
      [text |-> <<"1", "8", "4", "4", "6", "7", "4", "4", "0", "7", "3", "7", "0", "9", "5", "5", "1", "6", "1", "6">>, overflow |-> TRUE],
      [text |-> <<"9", "9", "9", "9", "9", "9", "9", "9", "9", "9", "9", "9", "9", "9", "9", "9", "9", "9", "9", "9">>, overflow |-> TRUE],
      [text |-> <<"1", "0", "0", "0", "0", "0", "0", "0", "0", "0", "0", "0", "0", "0", "0", "0", "0", "0", "0", "0", "0">>, overflow |-> TRUE],
      [text |-> <<"+", "1", "8", "4", "4", "6", "7", "4", "4", "0", "7", "3", "7", "0", "9", "5", "5", "1", "6", "1", "6">>, overflow |-> TRUE] }

\* a request whose only header is "Content-Length: " and the value
LengthInputs ==
    { [descs |-> <<>>, handler |-> "ok", body_result |-> "ok",
       tail |-> <<"P", "O", "S", "T", SP, "/", SP, "H", "T", "T", "P", "/", "1", ".", "1", CR, LF>> \o ContentLengthName \o <<":", SP>> \o v.text
                \o <<CR, LF, CR, LF>>,
       limit |-> DefaultSettings.pipelining_requests_limit,
       payload_limit |-> WEBSOCKET_PAYLOAD_LIMIT, kind |-> "length",
       settings |-> DefaultSettings, shape |-> v] : v \in LengthValues }

\* most header lines of a request that is tried
MaxLines == 2

\* Header lines without their "\r\n": accepted ones with the name and the
\* value they stand for, and lines with an empty name, without colon or
\* with a value of no bytes (bad)
LineKinds ==
    { [bytes |-> <<"H", "o", "s", "t", ":", SP, "a">>, name |-> <<"H", "o", "s", "t">>, value |-> <<"a">>, bad |-> FALSE],
      [bytes |-> <<"X", ":", "b">>, name |-> <<"X">>, value |-> <<"b">>, bad |-> FALSE],
      [bytes |-> <<"X", ":", SP, SP, "b">>, name |-> <<"X">>, value |-> <<SP, "b">>, bad |-> FALSE],
      [bytes |-> <<SP, ":", SP, "s", "d">>, name |-> <<SP>>, value |-> <<"s", "d">>, bad |-> FALSE],
      [bytes |-> <<"A", ":", SP, "b", ":", "c">>, name |-> <<"A">>, value |-> <<"b", ":", "c">>, bad |-> FALSE],
      [bytes |-> <<":", SP, "s", "d">>, name |-> <<>>, value |-> <<>>, bad |-> TRUE],
      [bytes |-> <<"a", "b", "c">>, name |-> <<>>, value |-> <<>>, bad |-> TRUE],
      [bytes |-> <<"S", "D", ":">>, name |-> <<>>, value |-> <<>>, bad |-> TRUE],
      [bytes |-> <<"S", "D", ":", SP>>, name |-> <<>>, value |-> <<>>, bad |-> TRUE] }

\* the bytes of header lines, each ended by "\r\n"
RECURSIVE RenderLines(_)
RenderLines(lines) ==
    IF lines = <<>> THEN <<>>
    ELSE Head(lines).bytes \o <<CR, LF>> \o RenderLines(Tail(lines))

RequestLine == <<"G", "E", "T", SP, "/", SP, "H", "T", "T", "P", "/", "1", ".", "1", CR, LF>>

\* a request with up to MaxLines header lines of these kinds
LineInputs ==
    { [descs |-> <<>>, handler |-> "ok", body_result |-> "ok",
       tail |-> RequestLine \o RenderLines(ls) \o <<CR, LF>>,
       limit |-> DefaultSettings.pipelining_requests_limit,
       payload_limit |-> WEBSOCKET_PAYLOAD_LIMIT, kind |-> "lines",
       settings |-> DefaultSettings, shape |-> ls] :
        ls \in UNION { [1..k -> LineKinds] : k \in 1..MaxLines } }

\* a new parser and the bytes the peer will send
InitParser ==
    /\ SessionIs(NewSession)
    /\ tcp_clients = FALSE
    /\ worker = WorkerThread("done", <<>>, FALSE)
    /\ inbound \in ShapeInputs \cup RawInputs \cup LengthInputs \cup LineInputs
    /\ pos = 0
    /\ web = NewWebSession
    /\ content_callback = NoContentCallback
    /\ http_events = <<>>

\* the result of the last push has ended the parse
ParserDone == http_events # <<>> /\ http_events[1].type # "Partial"

\* The parser is given the next bytes of the stream; http_events holds the
\* result of this push alone.
PushChunk ==
    /\ ~ParserDone
    /\ \E n \in ChunkLens :
           LET r == push(web.request_parser, SubSeq(Stream, pos + 1, pos + n),
                         inbound.settings)
           IN
           /\ web' = [web EXCEPT !.request_parser = r.parser]
           /\ http_events' = <<[type |-> r.kind, error |-> r.error,
                                request |-> r.request, surplus |-> r.surplus,
                                fed |-> pos + n]>>
           /\ pos' = pos + n
    /\ last_op' = "push"
    /\ UNCHANGED <<surpluses_to_write, need_close, need_close_after_sending,
                   is_http_mode, interest, tcp_clients, wire, submitted, close_by,
                   write_failed, stream_errors, disconnected, worker,
                   last_response, threads, inbound, content_callback>>

SpecParser == InitParser /\ [][PushChunk]_vars

\* the index of the first byte of the first header line of a request of shape s
HeadersStart(s) ==
    s.method + 1 + s.path + (IF s.query >= 0 THEN s.query + 1 ELSE 0) + 1
    + VERSION_LEN + 2

\* The limit a request of shape s breaks first, in the order of its bytes,
\* and two indices for it: excess is the first byte beyond the limit (for
\* the count of headers, the ':' that makes the header one too many) and
\* scanned is the byte at which the scan raises the error.  Error "None": the
\* request is within every limit.
FirstExcess(s, st) ==
    LET path_index == s.method + 1
        query_index == path_index + s.path + 1
        header_index == HeadersStart(s)
        header_separator_index == header_index + s.name
    IN
    IF s.method > st.method_len_limit
    THEN [error |-> "MethodLenLimit", excess |-> st.method_len_limit,
          scanned |-> st.method_len_limit]
    ELSE IF s.path > st.path_len_limit
    THEN [error |-> "PathLenLimit", excess |-> path_index + st.path_len_limit,
          scanned |-> path_index + st.path_len_limit]
    ELSE IF s.query > st.query_len_limit
    THEN [error |-> "QueryLenLimit", excess |-> query_index + st.query_len_limit,
          scanned |-> query_index + st.query_len_limit]
    ELSE IF s.headers > 0 /\ s.name > st.header_name_len_limit
    THEN [error |-> "HeaderNameLenLimit",
          excess |-> header_index + st.header_name_len_limit,
          scanned |-> header_index + st.header_name_len_limit + 1]
    ELSE IF s.headers > 0 /\ s.value > st.header_value_len_limit
    THEN [error |-> "HeaderValueLenLimit",
          excess |-> header_separator_index + st.header_value_len_limit + 1,
          scanned |-> header_separator_index + st.header_value_len_limit + 3]
    ELSE IF s.headers > st.headers_count_limit
    THEN [error |-> "HeadersCountLimit",
          excess |-> header_separator_index
                         + st.headers_count_limit * Len(HeaderLine(s)),
          scanned |-> header_separator_index
                          + st.headers_count_limit * Len(HeaderLine(s))]
    ELSE [error |-> "None", excess |-> 0, scanned |-> 0]

\* the result of the last push for a request whose first broken limit is e,
\* the error being due once the byte at index at has been pushed
LimitVerdict(e, at) ==
    http_events # <<>> =>
        IF e.error = "None"
        THEN IF pos = Len(Stream)
             THEN /\ http_events[1].type = "Ok"
                  /\ raw_method(http_events[1].request) = Fill("M", inbound.shape.method)
                  /\ Len(raw_path(http_events[1].request)) = inbound.shape.path
                  /\ Len(raw_query(http_events[1].request))
                         = (IF inbound.shape.query < 0 THEN 0 ELSE inbound.shape.query)
                  /\ Len(http_events[1].request.headers) = inbound.shape.headers
                  /\ \A j \in 1..inbound.shape.headers :
                         /\ Len(http_events[1].request.headers[j].name)
                                = inbound.shape.name
                         /\ Len(http_events[1].request.headers[j].value)
                                = inbound.shape.value
                                      - (IF inbound.shape.space THEN 1 ELSE 0)
             ELSE http_events[1].type = "Partial"
        ELSE IF pos > at
             THEN http_events[1].type = "Error" /\ http_events[1].error = e.error
             ELSE http_events[1].type = "Partial"

\* C29 as stated: a request with every field at its limit is accepted, and
\* a request that breaks a limit is rejected with the error of that limit
\* by the push that holds the first byte beyond the limit.
C29_RejectedAtExcessByte ==
    inbound.kind = "request" =>
        LimitVerdict(FirstExcess(inbound.shape, inbound.settings),
                     FirstExcess(inbound.shape, inbound.settings).excess)

\* C29, amended: a request with every field at its limit is accepted (method,
\* path, query and header name of exactly the limit, value bytes with the
\* optional space of exactly header_value_len_limit, headers_count_limit
\* headers), and a request that breaks a limit is rejected with the error of
\* that limit by the push that holds the byte at which the scan raises it:
\* the first byte beyond the limit for method, path and query, the byte after
\* it for a header name, the second byte after it for a header value, and
\* the ':' of the header that is one too many; every push before that one
\* asks for more bytes.
C29_LimitsExact ==
    inbound.kind = "request" =>
        LimitVerdict(FirstExcess(inbound.shape, inbound.settings),
                     FirstExcess(inbound.shape, inbound.settings).scanned)

\* a request whose header value is one byte over its limit was pushed up to
\* the "\r" of the header line and then rejected when the "\n" came
C29_Witness ==
    /\ inbound.kind = "request"
    /\ FirstExcess(inbound.shape, inbound.settings).error = "HeaderValueLenLimit"
    /\ inbound.shape.value = inbound.settings.header_value_len_limit + 1
    /\ http_events # <<>>
    /\ http_events[1].type = "Error"
    /\ http_events[1].error = "HeaderValueLenLimit"
    /\ pos = FirstExcess(inbound.shape, inbound.settings).scanned + 1
    /\ Stream[pos] = LF

\* the index ranges of a completed request lie within its head: the method
\* from 0, the path and the query
IndicesWithinHead(request) ==
    /\ request.method_end_index <= Len(request.raw)
    /\ request.path_indices[1] <= request.path_indices[2]
    /\ request.path_indices[2] <= Len(request.raw)
    /\ request.raw_query_indices[1] <= request.raw_query_indices[2]
    /\ request.raw_query_indices[2] <= Len(request.raw)
    /\ request.method_end_index <= request.path_indices[1]
    /\ request.version \in {"Http1_0", "Http1_1"}

\* C30: whatever the bytes and however they are split into pushes, a push
\* ends with a completed request, with "need more" or with an error value,
\* never with a panic for an index outside the head buffer, and the index
\* ranges of a completed request lie within its head.
C30_PushNeverPanics ==
    http_events # <<>> =>
        /\ http_events[1].type \in {"Ok", "Partial", "Error"}
        /\ http_events[1].type = "Ok" => IndicesWithinHead(http_events[1].request)

\* the text is one or more decimal digits and nothing else
OnlyDigits(text) == text # <<>> /\ \A k \in 1..Len(text) : IsDigit(text[k])

\* C31: a request with a Content-Length header is accepted only if the value
\* is decimal digits alone and fits the unsigned integer type; every other
\* value, '+5' among them, ends the parse with ContentLengthParseError.
C31_ContentLengthDigitsOnly ==
    (inbound.kind = "length" /\ pos = Len(Stream) /\ http_events # <<>>) =>
        IF OnlyDigits(inbound.shape.text) /\ ~inbound.shape.overflow
        THEN /\ http_events[1].type = "Ok"
             /\ http_events[1].request.content_len = digits_value(inbound.shape.text, 0)
        ELSE /\ http_events[1].type = "Error"
             /\ http_events[1].error = "ContentLengthParseError"

(***************************************************************************)
(* Part 14.  More properties of the write path and of the worker.          *)
(***************************************************************************)
\* C32: the bytes that one drain (send_yet) puts on the wire are the first
\* bytes of the queue in queue order: the remaining bytes of an entry are
\* written before any byte of a later entry, whatever the results of the
\* writes are.
C32_DrainFrontToBack ==
    [][last_op' = "send_yet" =>
           \E k \in 0..Len(Pending(surpluses_to_write)) :
               wire' = wire \o SubSeq(Pending(surpluses_to_write), 1, k)]_vars

\* the first bad line of the header lines, 0 if there is none
FirstBad(lines) ==
    IF \E j \in 1..Len(lines) : lines[j].bad
    THEN CHOOSE j \in 1..Len(lines) :
             lines[j].bad /\ \A i \in 1..(j - 1) : ~lines[i].bad
    ELSE 0

\* the number of bytes of the stream up to the end of header line j
LineEnd(lines, j) == Len(RequestLine) + Len(RenderLines(SubSeq(lines, 1, j)))

\* C33: a header line with an empty name, without colon or with a value of
\* no bytes (with or without the optional space) makes the parse fail, by
\* the end of that line at the latest; when every line is 'Name: value' the
\* request is completed with one header per line, in order, the name as it
\* was sent and the value without its one optional leading space.
C33_HeaderLines ==
    (inbound.kind = "lines" /\ http_events # <<>>) =>
        LET lines == inbound.shape
            b == FirstBad(lines)
        IN
        IF b = 0
        THEN IF pos = Len(Stream)
             THEN /\ http_events[1].type = "Ok"
                  /\ http_events[1].request.headers
                         = [j \in 1..Len(lines) |->
                                [name |-> lines[j].name, value |-> lines[j].value]]
             ELSE http_events[1].type = "Partial"
        ELSE /\ http_events[1].type \in {"Partial", "Error"}
             /\ http_events[1].type = "Error" =>
                    http_events[1].error \in {"EmptyHeaderName", "WrongHeader"}
             /\ pos >= LineEnd(lines, b) => http_events[1].type = "Error"

\* a request with two headers, one with the optional space and one without,
\* was completed
C33_Witness ==
    /\ inbound.kind = "lines"
    /\ Len(inbound.shape) = 2
    /\ inbound.shape[1].bytes = <<"X", ":", SP, SP, "b">>
    /\ inbound.shape[2].bytes = <<"X", ":", "b">>
    /\ http_events # <<>>
    /\ http_events[1].type = "Ok"
    /\ Len(http_events[1].request.headers) = 2

\* a writable event of the session at which the socket accepts at least one
\* byte and no write fails
DrainProgress ==
    /\ last_op' = "send_yet"
    /\ WritableEvent
    /\ Len(wire') > Len(wire)
    /\ write_failed' = write_failed

\* the write path of a session that is not in HTTP mode
NextDrain ==
    \/ Send
    \/ SendArc
    \/ Close
    \/ CloseAfterSend
    \/ WritableEvent
    \/ ReadableEvent
    \/ RemoveDisconnected

SpecDrain == Init /\ [][NextDrain]_vars

\* the same with a socket that keeps becoming writable while the session is
\* registered for writing
SpecDrainFair == SpecDrain /\ WF_vars(DrainProgress)

\* C34: bytes in the queue of a session in the table lead to an empty queue
\* with every submitted byte on the wire and the registration back at
\* readable, unless a write fails or the close is requested.
C34_QueueDrains ==
    (tcp_clients /\ surpluses_to_write # <<>>)
        ~> \/ /\ surpluses_to_write = <<>>
              /\ wire = submitted
              /\ interest = "readable"
           \/ write_failed
           \/ need_close

\* the queue held bytes of two sends and the drain has written them all
C34_Witness ==
    /\ last_op = "send_yet"
    /\ surpluses_to_write = <<>>
    /\ interest = "readable"
    /\ wire = submitted
    /\ Len(submitted) > MaxBlock
    /\ ~write_failed
    /\ ~need_close
    /\ tcp_clients

(***************************************************************************)
(* Part 15.  The poll loop of a worker and a close request (worker.rs,     *)
(* Worker::poll).  The worker is at the top of Worker::poll, inside mio's  *)
(* poll, which is called without a timeout and returns when a socket of    *)
(* the worker is ready, or in process_mio_events.  pos counts the chunks   *)
(* the peer of the session has sent and http_events the reads of them;     *)
(* worker.other counts the events of the worker's other sockets.           *)
(***************************************************************************)
\* the worker in its loop
LoopWorker(pc, events, other, left) ==
    [pc |-> pc, events |-> events, other |-> other, left |-> left]

InitLoop ==
    /\ SessionIs(NewSession)
    /\ tcp_clients = TRUE
    /\ worker \in {LoopWorker("top", <<"Connected">>, 0, n) : n \in 0..MaxConnections}
    /\ inbound \in {NoInbound @@ [chunks |-> k] : k \in 0..MaxChunk}
    /\ pos = 0
    /\ web = NewWebSession
    /\ content_callback = NoContentCallback
    /\ http_events = <<>>

\* the session's socket is readable: it is in the table, registered for
\* reading (level-triggered) and holds a chunk that was not read
SessionReadable == tcp_clients /\ pos > Len(http_events)

\* the peer of the session sends a chunk
PeerSendsChunk ==
    /\ pos < inbound.chunks
    /\ pos' = pos + 1
    /\ last_op' = "peer"
    /\ UNCHANGED <<surpluses_to_write, need_close, need_close_after_sending,
                   is_http_mode, interest, tcp_clients, wire, submitted, close_by,
                   write_failed, stream_errors, disconnected, worker,
                   last_response, threads, inbound, web, content_callback,
                   http_events>>

\* another socket of the worker becomes ready
OtherSocketReady ==
    /\ worker.left > 0
    /\ worker' = [worker EXCEPT !.left = @ - 1, !.other = @ + 1]
    /\ last_op' = "other"
    /\ UNCHANGED <<surpluses_to_write, need_close, need_close_after_sending,
                   is_http_mode, interest, tcp_clients, wire, submitted, close_by,
                   write_failed, stream_errors, disconnected,
                   last_response, threads, inbound, pos, web, content_callback,
                   http_events>>

\* TcpSession::close called by a thread of the application that holds a
\* handle of the session
CloseFromThread ==
    /\ ~need_close
    /\ Commit(close(Session, "application"))
    /\ last_op' = "close"
    /\ UNCHANGED <<tcp_clients, disconnected, worker, last_response, threads,
                   inbound, pos, web, content_callback, http_events>>

\* Worker::poll up to the call of mio's poll: remove_disconnected
PollTop ==
    /\ worker.pc = "top"
    /\ IF tcp_clients /\ remove_disconnected_test(Session)
       THEN /\ tcp_clients' = FALSE
            /\ disconnected' = disconnected + 1
            /\ worker' = [worker EXCEPT !.pc = "poll",
                                        !.events = Append(@, "Disconnected")]
       ELSE /\ worker' = [worker EXCEPT !.pc = "poll"]
            /\ UNCHANGED <<tcp_clients, disconnected>>
    /\ last_op' = "remove_disconnected"
    /\ UNCHANGED <<surpluses_to_write, need_close, need_close_after_sending,
                   is_http_mode, interest, wire, submitted, close_by,
                   write_failed, stream_errors, last_response, threads, inbound,
                   pos, web, content_callback, http_events>>

\* mio's poll(None) returns: some socket of the worker is ready
MioPollReturns ==
    /\ worker.pc = "poll"
    /\ SessionReadable \/ worker.other > 0
    /\ worker' = [worker EXCEPT !.pc = "events"]
    /\ last_op' = "poll"
    /\ UNCHANGED <<surpluses_to_write, need_close, need_close_after_sending,
                   is_http_mode, interest, tcp_clients, wire, submitted, close_by,
                   write_failed, stream_errors, disconnected,
                   last_response, threads, inbound, pos, web, content_callback,
                   http_events>>

\* process_mio_events: the events of the other sockets are handled and, if
\* the session is readable, read_stream is called; what is read is data that
\* is handled, data whose handler closes the session, or data that is a
\* protocol error; a session that needs to disconnect is removed at once
ProcessMioEvents ==
    /\ worker.pc = "events"
    /\ IF SessionReadable
       THEN \E outcome \in {"handled", "handler_close", "protocol_error"} :
                LET r == IF outcome = "handled" \/ need_close THEN Session
                         ELSE close(Session, outcome)
                IN
                /\ Commit(r)
                /\ http_events' = Append(http_events, outcome)
                /\ IF r.need_close
                   THEN /\ tcp_clients' = FALSE
                        /\ disconnected' = disconnected + 1
                        /\ worker' = [worker EXCEPT
                                         !.pc = "top", !.other = 0,
                                         !.events = Append(@, "Disconnected")]
                   ELSE /\ worker' = [worker EXCEPT !.pc = "top", !.other = 0]
                        /\ UNCHANGED <<tcp_clients, disconnected>>
       ELSE /\ worker' = [worker EXCEPT !.pc = "top", !.other = 0]
            /\ UNCHANGED <<surpluses_to_write, need_close,
                           need_close_after_sending, is_http_mode, interest,
                           tcp_clients, wire, submitted, close_by, write_failed,
                           stream_errors, disconnected, http_events>>
    /\ last_op' = "process_mio_events"
    /\ UNCHANGED <<last_response, threads, inbound, pos, web, content_callback>>

NextLoop ==
    \/ PeerSendsChunk
    \/ OtherSocketReady
    \/ CloseFromThread
    \/ PollTop
    \/ MioPollReturns
    \/ ProcessMioEvents

SpecLoop == InitLoop /\ [][NextLoop]_vars

\* the worker thread is scheduled: each of its steps is taken when it stays
\* possible; the peers and the application's threads owe nothing
SpecLoopFair ==
    /\ SpecLoop
    /\ WF_vars(PollTop)
    /\ WF_vars(MioPollReturns)
    /\ WF_vars(ProcessMioEvents)

\* C35: a close request on a session in the table is followed by the
\* removal of the session and the Disconnected event, and a session that
\* needs to close does not stay in the table past the sweep at the top of
\* Worker::poll.
C35_CloseLeadsToClosed ==
    /\ [](worker.pc = "poll" /\ last_op = "remove_disconnected" /\ need_close
              => ~tcp_clients)
    /\ (tcp_clients /\ need_close)
           ~> (~tcp_clients /\ disconnected = 1
               /\ worker.events[Len(worker.events)] = "Disconnected")

(***************************************************************************)
(* Part 16.  The write path of a session with a TLS engine                 *)
(* (InnerTcpSession::write with tls_session = Some).  The engine keeps the *)
(* plaintext it has accepted, in order, and the TLS bytes it has made of   *)
(* it and not yet written to the socket; wire holds TLS bytes.             *)
(***************************************************************************)
\* rustls::ServerSession after the handshake, nothing buffered
NewTlsSession == [plaintext |-> <<>>, sendable |-> <<>>]

\* the TLS bytes the engine makes of a block of plaintext: a record header
\* and the enciphered bytes
tls_record(buf) ==
    <<[record |-> Len(buf)]>> \o [i \in 1..Len(buf) |-> [enc |-> buf[i]]]

\* tls_session.write(buf): the engine accepts the whole block
tls_session_write(s, buf) ==
    [s EXCEPT !.tls_session.plaintext = @ \o buf,
              !.tls_session.sendable = @ \o tls_record(buf)]

\* while tls_session.wants_write() { cnt += tls_session.write_tls(stream)? }
\* Each write_tls is a socket write of the bytes the engine holds, with the
\* results of WriteOutcomes.  The writes of the loop that succeed move k of
\* the n bytes the engine holds to the wire: the loop ends with Ok when k = n
\* and with the error of the write that failed when k < n.  The possible
\* results: the session, the kind of the result and the count.
wants_write_loop(s, cnt) ==
    LET n == Len(s.tls_session.sendable)
        moved(k) == [s EXCEPT !.wire = @ \o SubSeq(s.tls_session.sendable, 1, k),
                              !.tls_session.sendable = SliceFrom(@, k)]
    IN
    {[s |-> moved(n), kind |-> "ok", cnt |-> cnt + n]}
        \cup UNION { {[s |-> IF o.kind = "wouldblock" THEN moved(k)
                             ELSE [moved(k) EXCEPT !.write_failed = TRUE],
                       kind |-> o.kind, cnt |-> 0] : k \in 0..(n - 1)}
                     : o \in {x \in WriteOutcomes(n) : x.kind # "ok"} }

\* InnerTcpSession::write with a TLS engine
write_with_tls(s, buf) ==
    wants_write_loop(tls_session_write(s, buf), Len(buf))

\* InnerTcpSession::send of a session with a TLS engine
send_with_tls(s0, data) ==
    LET s == [s0 EXCEPT !.submitted = @ \o data] IN
    IF s.surpluses_to_write # <<>>
    THEN {[s EXCEPT !.surpluses_to_write = Append(@, SurplusForWrite(data, 0))]}
    ELSE UNION {
        IF res.kind = "ok"
        THEN IF res.cnt < Len(data)
             THEN send_later(res.s, send_rest(data, res.cnt))
             ELSE {IF send_close_check(res.s) THEN close(res.s, "after_sending")
                   ELSE res.s}
        ELSE IF res.kind = "wouldblock"
        THEN send_later(res.s, SurplusForWrite(data, 0))
        ELSE {close(res.s, "send_error")}
        : res \in write_with_tls(s, data) }

\* the loop of send_yet of a session with a TLS engine, from entry i
RECURSIVE send_yet_loop_with_tls(_, _)
send_yet_loop_with_tls(s, i) ==
    IF i > Len(s.surpluses_to_write) \/ s.unwound THEN {s}
    ELSE LET surplus == s.surpluses_to_write[i] IN
         IF surplus.write_yet_cnt >= Len(surplus.data)
         THEN send_yet_loop_with_tls(s, i + 1)
         ELSE UNION {
                  IF res.kind = "ok"
                  THEN UNION {
                           IF w1.surpluses_to_write[i].write_yet_cnt < Len(surplus.data)
                           THEN {w1}
                           ELSE send_yet_loop_with_tls(w1, i + 1)
                           : w1 \in {[res.s EXCEPT
                                         !.surpluses_to_write[i].write_yet_cnt = @ + res.cnt]} }
                  ELSE IF res.kind = "wouldblock"
                  THEN {res.s}
                  ELSE IF res.kind = "reset"
                  THEN UNION {send_yet_loop_with_tls(c, i + 1) :
                                 c \in {close(res.s, "send_yet_error")}}
                  ELSE UNION {send_yet_loop_with_tls(c, i + 1) :
                                 c \in {close(call_error_callback(res.s), "send_yet_error")}}
                  : res \in write_with_tls(
                                s, SliceFrom(surplus.data, surplus.write_yet_cnt)) }

\* TcpSession::send_yet of a session with a TLS engine
send_yet_with_tls(s) ==
    IF s.surpluses_to_write = <<>>
    THEN {[s EXCEPT !.interest = "readable"],
          close(call_error_callback(s), "reregister")}
    ELSE UNION {
        LET kept == [l EXCEPT !.surpluses_to_write = retain(@)] IN
        IF l.unwound THEN {l}
        ELSE IF kept.surpluses_to_write = <<>> THEN send_yet_drained(kept) ELSE {kept}
        : l \in send_yet_loop_with_tls(s, 1) }

\* the session and its TLS engine as one record
TlsSession == Session @@ [tls_session |-> worker.tls_session]

InitTls ==
    /\ SessionIs(NewSession)
    /\ tcp_clients = TRUE
    /\ worker = [tls_session |-> NewTlsSession, events |-> <<"Connected">>]
    /\ inbound = NoInbound
    /\ pos = 0
    /\ web = NewWebSession
    /\ content_callback = NoContentCallback
    /\ http_events = <<>>

\* the session is removed and Disconnected is emitted if it needs to close
CommitTls(s) ==
    /\ Commit(s)
    /\ worker' = [worker EXCEPT
                     !.tls_session = s.tls_session,
                     !.events = IF s.need_close /\ last_op' = "send_yet"
                                THEN Append(@, "Disconnected") ELSE @]
    /\ tcp_clients' = ~(s.need_close /\ last_op' = "send_yet")
    /\ disconnected' = IF tcp_clients' THEN disconnected ELSE disconnected + 1

\* the plaintext the engine of a session may be given is bounded
TlsRoom == Len(worker.tls_session.plaintext) <= MaxBlock

\* TcpSession::send called by the application on a session with a TLS engine
SendTls ==
    /\ tcp_clients
    /\ TlsRoom
    /\ last_op' = "send"
    /\ \E n \in BlockLens : \E s \in send_with_tls(TlsSession, NewBlock(n)) :
           CommitTls(s)
    /\ UNCHANGED <<last_response, others>>

\* Worker::process_mio_events for a writable event of a session with a TLS
\* engine
WritableEventTls ==
    /\ tcp_clients
    /\ TlsRoom
    /\ interest = "writable"
    /\ last_op' = "send_yet"
    /\ \E s \in send_yet_with_tls(TlsSession) : CommitTls(s)
    /\ UNCHANGED <<last_response, others>>

NextTls == SendTls \/ WritableEventTls

SpecTls == InitTls /\ [][NextTls]_vars

\* C36: the plaintext handed to the TLS engine is, in order, plaintext that
\* was submitted through send, each byte once: the engine's plaintext is a
\* prefix of the submitted bytes.
C36_PlaintextOnce == IsPrefix(worker.tls_session.plaintext, submitted)

SlabKeys == 0..(MaxConnections - 1)

\* Slab::new(): no entry, the next vacant key is 0.  An entry is the id of
\* the session in it, or the vacant key that follows it in the free list.
NewSlab == [entries |-> <<>>, next |-> 0]

Occupied(id) == [occupied |-> TRUE, id |-> id, need_close |-> FALSE]
Vacant(next) == [occupied |-> FALSE, next |-> next]

\* self.tcp_clients.vacant_entry().key()
vacant_key(slab) == slab.next

\* self.tcp_clients.insert(tcp_client)
slab_insert(slab, id) ==
    LET key == slab.next IN
    IF key = Len(slab.entries)
    THEN [entries |-> Append(slab.entries, Occupied(id)), next |-> key + 1]
    ELSE [entries |-> [slab.entries EXCEPT ![key + 1] = Occupied(id)],
          next |-> slab.entries[key + 1].next]

\* self.tcp_clients.remove(token_id)
slab_remove(slab, key) ==
    [entries |-> [slab.entries EXCEPT ![key + 1] = Vacant(slab.next)],
     next |-> key]

\* self.tcp_clients.get_mut(token_id) is Some
slab_contains(slab, key) ==
    key < Len(slab.entries) /\ slab.entries[key + 1].occupied

NoDispatch == [socket |-> -1, session |-> -1, token |-> -1]

InitSlab ==
    /\ SessionIs(NewSession)
    /\ tcp_clients = FALSE
    /\ inbound = NoInbound
    /\ pos = 0
    /\ web = NewWebSession
    /\ content_callback = NoContentCallback
    /\ http_events = <<>>
    /\ worker = [slab |-> NewSlab, connections_counter |-> 0, sockets |-> {},
                 dispatched |-> NoDispatch, events |-> <<>>]

FrameSlab ==
    UNCHANGED <<surpluses_to_write, need_close, need_close_after_sending,
                is_http_mode, interest, tcp_clients, wire, submitted, close_by,
                write_failed, stream_errors, disconnected, last_response,
                threads, inbound, pos, web, content_callback, http_events>>

\* the sockets that are open and registered with the poller
Registered == worker.sockets

\* the listener branch for one connection: the id, the key of the vacant
\* slot, the Connected event (whose callback may keep the handle it is given),
\* the registration with the key as token, the insertion
SlabAccept ==
    /\ worker.connections_counter < MaxConnections
    /\ \E keeps \in BOOLEAN :
        LET client_id == worker.connections_counter
            slab_key == vacant_key(worker.slab)
        IN
        worker' = [worker EXCEPT
                      !.connections_counter = @ + 1,
                      !.slab = slab_insert(@, client_id),
                      !.sockets = @ \cup {[id |-> client_id, token |-> slab_key,
                                           handle |-> keeps]},
                      !.events = Append(@, <<"Connected", client_id>>)]
    /\ last_op' = "accept"
    /\ FrameSlab

\* TcpSession::close on a session of the table
SlabClose ==
    /\ \E key \in SlabKeys :
        /\ slab_contains(worker.slab, key)
        /\ ~worker.slab.entries[key + 1].need_close
        /\ worker' = [worker EXCEPT !.slab.entries[key + 1].need_close = TRUE]
    /\ last_op' = "close"
    /\ FrameSlab

\* the sockets after the worker dropped the session id: a socket without a
\* handle of the application is closed
after_drop(sockets, id) == {s \in sockets : s.id # id \/ s.handle}

\* remove_disconnected for the session of one key
SlabSweep ==
    /\ \E key \in SlabKeys :
        /\ slab_contains(worker.slab, key)
        /\ worker.slab.entries[key + 1].need_close
        /\ LET id == worker.slab.entries[key + 1].id IN
           worker' = [worker EXCEPT
                         !.slab = slab_remove(@, key),
                         !.sockets = after_drop(@, id),
                         !.events = Append(@, <<"Disconnected", id>>)]
    /\ last_op' = "remove_disconnected"
    /\ FrameSlab

\* the application drops the handle it kept: the socket of a session that
\* is no longer in the table is closed
SlabDropHandle ==
    /\ \E s \in worker.sockets :
        /\ s.handle
        /\ LET in_table == \E key \in SlabKeys :
                               /\ slab_contains(worker.slab, key)
                               /\ worker.slab.entries[key + 1].id = s.id
           IN
           worker' = [worker EXCEPT
                         !.sockets = IF in_table
                                     THEN (@ \ {s}) \cup {[s EXCEPT !.handle = FALSE]}
                                     ELSE @ \ {s}]
    /\ last_op' = "drop"
    /\ FrameSlab

\* the token branch of process_mio_events for an event of a registered
\* socket: the session is looked up by the token; read_stream or send_yet is
\* called on the session that is found, and that session is removed if it
\* needs to disconnect
SlabEvent ==
    /\ \E s \in Registered :
        IF slab_contains(worker.slab, s.token)
        THEN LET client == worker.slab.entries[s.token + 1] IN
             worker' = [worker EXCEPT
                 !.dispatched = [socket |-> s.id, session |-> client.id,
                                 token |-> s.token],
                 !.slab = IF client.need_close THEN slab_remove(@, s.token) ELSE @,
                 !.sockets = IF client.need_close THEN after_drop(@, client.id) ELSE @,
                 !.events = IF client.need_close
                            THEN Append(@, <<"Disconnected", client.id>>) ELSE @]
        ELSE worker' = [worker EXCEPT !.dispatched = NoDispatch]
    /\ last_op' = "event"
    /\ FrameSlab

NextSlab ==
    \/ SlabAccept
    \/ SlabClose
    \/ SlabSweep
    \/ SlabDropHandle
    \/ SlabEvent

SpecSlab == InitSlab /\ [][NextSlab]_vars

\* C38: the session an event is applied to is the session whose socket
\* produced the event.
C38_EventToOwnSession ==
    worker.dispatched # NoDispatch =>
        worker.dispatched.socket = worker.dispatched.session

(***************************************************************************)
(* Part 19.  Reads of a session that was asked to close.  A thread of the  *)
(* application that holds a handle calls close between two readable        *)
(* events; the session stays in the table until the sweep or until the     *)
(* next event of its socket has been handled.                              *)
(***************************************************************************)
\* a session in HTTP mode whose peer sends one request and whose handler
\* reads the body, or a session in WebSocket mode whose peer sends one frame;
\* the callbacks return Ok
InitClosing ==
    \/ /\ InitWeb
       /\ inbound.handler = "read_content" /\ inbound.body_result = "ok"
       /\ Len(inbound.descs) = 1
    \/ /\ InitSocket
       /\ inbound.body_result = "ok"
       /\ Len(inbound.frames) = 1

NextClosing ==
    \/ ReadChunk
    \/ ReadNothing
    \/ Close
    \/ RemoveDisconnected

SpecClosing == InitClosing /\ [][NextClosing]_vars

\* the requests, body chunks and frames handed to the callbacks, in order
Deliveries(events) ==
    SelectSeq(events, LAMBDA e : e.type \in {"request", "content", "frame"})

\* C39: need_close, once set, stays set, and a read that starts with
\* need_close set hands no request, no body chunk and no frame to a callback.
C39_ClosedSessionParsesNothing ==
    [][need_close =>
           /\ need_close'
           /\ Deliveries(http_events') = Deliveries(http_events)]_vars

\* a thread closed the session before anything was read; the read after it
\* returned all the peer had sent, at least one whole request or frame, and
\* nothing was delivered
C39_Witness ==
    /\ need_close /\ close_by = "application"
    /\ last_op = "read_stream"
    /\ pos = Len(Stream)
    /\ Len(inbound.descs) > 0
    /\ http_events = <<>>

(***************************************************************************)
(* Part 20.  The mutexes of a session under threads of the application and *)
(* the worker.  A call is the sequence of lock and unlock steps the code   *)
(* of the method makes, with the places where it invokes a callback.  In   *)
(* this part threads holds, for each thread of the application, the steps  *)
(* left of its call and the mutexes it holds, and worker the same for the  *)
(* worker thread.                                                          *)
(***************************************************************************)
LockStep(m) == [op |-> "lock", m |-> m]
UnlockStep(m) == [op |-> "unlock", m |-> m]
CallStep(site) == [op |-> "callback", m |-> site]

\* InnerTcpSession::write: the TLS engine, then the stream
write_steps(tls) ==
    IF tls
    THEN <<LockStep("tls_session"), LockStep("mio_stream"),
           UnlockStep("mio_stream"), UnlockStep("tls_session")>>
    ELSE <<LockStep("mio_stream"), UnlockStep("mio_stream")>>

\* send_later: the queue, then the stream
send_later_steps ==
    <<LockStep("surpluses_to_write"), LockStep("mio_stream"),
      UnlockStep("mio_stream"), UnlockStep("surpluses_to_write")>>

\* send and send_arc: the queue is locked for the test and unlocked; the
\* call ends there (the block was queued), or after the write, or after
\* send_later
send_steps(tls) ==
    LET test == <<LockStep("surpluses_to_write"), UnlockStep("surpluses_to_write")>> IN
    {test, test \o write_steps(tls), test \o write_steps(tls) \o send_later_steps}

\* the call of the error callback of the session's mode
error_callback_steps(http_mode, site_http, site_websocket) ==
    IF http_mode
    THEN <<LockStep("http_request_callback"), CallStep(site_http),
           UnlockStep("http_request_callback")>>
    ELSE <<LockStep("websocket_callback"), CallStep(site_websocket),
           UnlockStep("websocket_callback")>>

\* send_yet: the queue is locked from the first line to the last; inside, the
\* write, and then nothing more, or the registration for reading, or the
\* error callback after a write error
send_yet_steps(tls, http_mode) ==
    LET head == <<LockStep("surpluses_to_write")>> \o write_steps(tls)
        last == <<UnlockStep("surpluses_to_write")>>
    IN
    {head \o last,
     head \o <<LockStep("mio_stream"), UnlockStep("mio_stream")>> \o last,
     head \o error_callback_steps(http_mode, "on_request_write_error",
                                  "on_frame_write_error") \o last}

\* InnerTcpSession::read_stream: the stream for the read; with a TLS engine
\* the engine, inside it the stream for the engine's own writes, and the
\* on-data callback with the engine still locked
inner_read_stream_steps(tls) ==
    LET read == <<LockStep("mio_stream"), UnlockStep("mio_stream")>>
        data == <<LockStep("on_data_received_callback"), CallStep("on_data_received"),
                  UnlockStep("on_data_received_callback")>>
    IN
    IF tls
    THEN read \o <<LockStep("tls_session"), LockStep("mio_stream"),
                   UnlockStep("mio_stream")>>
              \o data \o <<UnlockStep("tls_session")>>
    ELSE read \o data

\* WebSession::process_data on what was read: the slots it looks at, and the
\* callback of a request, of a body chunk or of a frame
process_data_steps(http_mode) ==
    LET look(m) == <<LockStep(m), UnlockStep(m)>> IN
    IF http_mode
    THEN {look("websocket_callback") \o look("content_callback"),
          look("websocket_callback") \o look("content_callback")
              \o <<LockStep("http_request_callback"), CallStep("on_request"),
                   UnlockStep("http_request_callback")>>
              \o look("content_callback") \o look("websocket_callback"),
          look("websocket_callback") \o look("content_callback")
              \o <<LockStep("content_callback"), CallStep("on_body_chunk"),
                   UnlockStep("content_callback")>>}
    ELSE {<<LockStep("websocket_callback"), CallStep("on_frame"),
            UnlockStep("websocket_callback")>>}

\* what the worker does for an event of the session
worker_steps(tls, http_mode) ==
    {inner_read_stream_steps(tls) \o p : p \in process_data_steps(http_mode)}
        \cup send_yet_steps(tls, http_mode)

\* a thread that is in no call
NoCall == [todo |-> <<>>, held |-> {}]

InitOrder ==
    /\ surpluses_to_write = <<>> /\ need_close = FALSE
    /\ need_close_after_sending = FALSE
    /\ is_http_mode \in BOOLEAN
    /\ interest = "readable" /\ wire = <<>> /\ submitted = <<>>
    /\ close_by = "none" /\ write_failed = FALSE /\ stream_errors = <<>>
    /\ disconnected = 0 /\ last_op = "new" /\ last_response = NoResponse
    /\ threads = [t \in Threads |-> NoCall]
    /\ tcp_clients = TRUE
    /\ inbound = NoInbound
    /\ pos = 0
    /\ web = NewWebSession
    /\ content_callback = NoContentCallback
    /\ http_events = <<>>
    /\ \E tls \in BOOLEAN :
           worker = [todo |-> <<>>, held |-> {}, tls |-> tls, reentered |-> FALSE]

\* the threads: 0 is the worker
Procs == Threads \cup {0}
Proc(x) == IF x = 0 THEN worker ELSE threads[x]

\* the next step of x is the lock of a mutex that a thread holds
Waits(x) ==
    /\ Proc(x).todo # <<>>
    /\ Proc(x).todo[1].op = "lock"
    /\ \E y \in Procs : Proc(x).todo[1].m \in Proc(y).held

\* the thread that holds the mutex x waits for
WaitsOn(x) == CHOOSE y \in Procs : Proc(x).todo[1].m \in Proc(y).held

\* x waits, and so does the thread it waits on, n times over
RECURSIVE ChainWaits(_, _)
ChainWaits(x, n) ==
    n = 0 \/ (Waits(x) /\ ChainWaits(WaitsOn(x), n - 1))

\* the lock x waits for is never released: the chain of waiting threads
\* from x comes back to a thread of the chain
Stuck(x) == ChainWaits(x, Cardinality(Procs))

\* the state of a thread after its next step, a lock of a free mutex or an
\* unlock
after_step(p) ==
    LET step == p.todo[1] IN
    [p EXCEPT !.todo = Tail(@),
              !.held = IF step.op = "lock" THEN @ \cup {step.m} ELSE @ \ {step.m}]

CanStep(x) ==
    /\ Proc(x).todo # <<>>
    /\ Proc(x).todo[1].op \in {"lock", "unlock"}
    /\ ~Waits(x)

FrameOrder ==
    UNCHANGED <<surpluses_to_write, need_close, need_close_after_sending,
                is_http_mode, interest, tcp_clients, wire, submitted, close_by,
                write_failed, stream_errors, disconnected, last_response,
                inbound, pos, web, content_callback, http_events>>

\* a thread of the application calls send or send_arc
ThreadCallsSend(t) ==
    /\ threads[t].todo = <<>>
    /\ \E steps \in send_steps(worker.tls) :
           threads' = [threads EXCEPT ![t] = [todo |-> steps, held |-> {}]]
    /\ last_op' = "send"
    /\ UNCHANGED worker
    /\ FrameOrder

\* a thread of the application calls close: an atomic store and no mutex
ThreadCallsClose(t) ==
    /\ threads[t].todo = <<>>
    /\ ~need_close
    /\ need_close' = TRUE
    /\ close_by' = "application"
    /\ last_op' = "close"
    /\ UNCHANGED <<threads, worker, surpluses_to_write, need_close_after_sending,
                   is_http_mode, interest, tcp_clients, wire, submitted,
                   write_failed, stream_errors, disconnected, last_response,
                   inbound, pos, web, content_callback, http_events>>

\* the next lock or unlock of a call of a thread of the application
ThreadStep(t) ==
    /\ CanStep(t)
    /\ threads' = [threads EXCEPT ![t] = after_step(@)]
    /\ UNCHANGED <<worker, last_op>>
    /\ FrameOrder

\* the worker handles an event of the session
WorkerEvent ==
    /\ worker.todo = <<>>
    /\ \E steps \in worker_steps(worker.tls, is_http_mode) :
           worker' = [worker EXCEPT !.todo = steps, !.reentered = FALSE]
    /\ last_op' = "event"
    /\ UNCHANGED threads
    /\ FrameOrder

\* the next lock or unlock of the worker
WorkerLockStep ==
    /\ CanStep(0)
    /\ worker' = after_step(worker)
    /\ UNCHANGED <<threads, last_op>>
    /\ FrameOrder

\* the callback the worker invoked returns without a call of the session
CallbackLeaf ==
    /\ worker.todo # <<>>
    /\ worker.todo[1].op = "callback"
    /\ worker' = [worker EXCEPT !.todo = Tail(@)]
    /\ UNCHANGED <<threads, last_op>>
    /\ FrameOrder

\* the callback the worker invoked calls send on the session, on the worker
\* thread, and returns after it
CallbackSends ==
    /\ worker.todo # <<>>
    /\ worker.todo[1].op = "callback"
    /\ \E steps \in send_steps(worker.tls) :
           worker' = [worker EXCEPT !.todo = steps \o Tail(@), !.reentered = TRUE]
    /\ UNCHANGED <<threads, last_op>>
    /\ FrameOrder

NextOrder ==
    \/ \E t \in Threads : ThreadCallsSend(t)
    \/ \E t \in Threads : ThreadCallsClose(t)
    \/ \E t \in Threads : ThreadStep(t)
    \/ WorkerEvent
    \/ WorkerLockStep
    \/ CallbackLeaf
    \/ CallbackSends

SpecOrder == InitOrder /\ [][NextOrder]_vars

\* C40: no call of send, send_arc or close by a thread of the application
\* waits for a mutex that is never released.
C40_CallsReturn == \A t \in Threads : ~Stuck(t)

\* while no callback has called the session on the worker thread, no thread
\* waits for a mutex that is never released
LeafCallbacksNeverStuck ==
    ~worker.reentered => \A x \in Procs : ~Stuck(x)
====
